---- MODULE Spec2Model ----
(***************************************************************************)
(* The interactive browsing session layer of the browse plugin             *)
(* (src/plugins/browse/index.ts, src/plugins/browse/pinchtab-backend.ts):  *)
(* the Navigation Guard (isUrlSafe), the session pool (getSession,         *)
(* evictSession, idle timers, capacity eviction), the page cache, the      *)
(* memoized backend detection and the handlers that use them.              *)
(*                                                                         *)
(* Scheduling model: Node's single thread.  A call is suspended only where *)
(* it awaits I/O: a reply to the chat, the availability probe, a backend   *)
(* operation, a cleanup that has a launched browser to close.  The code    *)
(* between two such points, with the continuations of awaits on something  *)
(* already settled, runs as one atomic action.  The calls waiting for one  *)
(* promise resume in the order in which they began to wait.                *)
(* Actors are interchangeable keys: actor a + 1 issues its first request   *)
(* only after actor a has issued one.                                      *)
(***************************************************************************)
EXTENDS Integers, Sequences, FiniteSets, TLC

VARIABLES
    sessions,          \* Map<number, SessionEntry>, in insertion order      (index.ts:45)
    pageCache,         \* Map<number, PageInfo>                              (index.ts:46)
    detectionPromise,  \* the memoized detection promise, 0 = null           (index.ts:49)
    promises,          \* the detection promises created so far
    backends,          \* the backend instances constructed so far
    armed,             \* the armed setTimeout timers
    now,               \* Date.now()
    procs,             \* the async calls in flight (handlers, timer callbacks, teardown)
    started,           \* number of handler calls started
    seen,              \* the highest actor that has issued a request
    gText,             \* Navigation Guard runs: the text under examination
    gStage,            \* Navigation Guard runs: "args", "url" or "checked"
    gSafe,             \* Navigation Guard runs: the result of isUrlSafe
    tabs,              \* Backend runs: what each backend instance holds (page, history)
    reply              \* Backend runs: what the last handler reported to the chat

poolVars == <<sessions, pageCache, detectionPromise, promises, backends, armed,
              now, procs, started, seen>>
guardVars == <<gText, gStage, gSafe>>
opVars == <<tabs, reply>>
vars == <<sessions, pageCache, detectionPromise, promises, backends, armed,
          now, procs, started, seen, gText, gStage, gSafe, tabs, reply>>

(***************************************************************************)
(* Text.  A string is a sequence of tokens; a token is a word or a decimal *)
(* number.  "https://10.1.2.3" is <<W("https"), Sep, N(10), Dot, N(1),     *)
(* Dot, N(2), Dot, N(3)>>.                                                 *)
(***************************************************************************)
W(w) == [isNum |-> FALSE, n |-> 0, s |-> w]
N(k) == [isNum |-> TRUE, n |-> k, s |-> ""]
Sep == W("://")
Dot == W(".")
EmptyText == << >>

\* String.prototype.toLowerCase / the URL parser's ASCII lowercasing, on a word
LowerWord(w) ==
    CASE w = "LOCALHOST" -> "localhost"
      [] w = "HTTP" -> "http"
      [] w = "HTTPS" -> "https"
      [] w = "Example" -> "example"
      [] OTHER -> w

LowerTok(t) == IF t.isNum THEN t ELSE W(LowerWord(t.s))

toLowerCase(text) == [i \in 1..Len(text) |-> LowerTok(text[i])]

\* String.prototype.startsWith for a two-token prefix scheme + "://"
startsWith(text, scheme) ==
    /\ Len(text) >= 2
    /\ text[1] = W(scheme)
    /\ text[2] = Sep

\* index of the first token of text, from position i on, that is in stop; Len+1 if none
RECURSIVE FirstStop(_, _, _)
FirstStop(text, i, stop) ==
    IF i > Len(text) THEN Len(text) + 1
    ELSE IF text[i] \in stop THEN i
    ELSE FirstStop(text, i + 1, stop)

\* String.prototype.split('.'): the sequence of the pieces between the dots
RECURSIVE split(_)
split(text) ==
    LET d == FirstStop(text, 1, {Dot})
    IN  IF d > Len(text) THEN <<text>>
        ELSE <<SubSeq(text, 1, d - 1)>> \o split(SubSeq(text, d + 1, Len(text)))

\* Number(piece): a decimal piece is its value, the empty piece is 0, anything else NaN
NaN == -1
Number(piece) ==
    IF piece = EmptyText THEN 0
    ELSE IF Len(piece) = 1 /\ piece[1].isNum THEN piece[1].n
    ELSE NaN

RECURSIVE Join(_)
Join(pieces) ==
    IF Len(pieces) = 0 THEN EmptyText
    ELSE IF Len(pieces) = 1 THEN pieces[1]
    ELSE pieces[1] \o <<Dot>> \o Join(Tail(pieces))

(***************************************************************************)
(* new URL(rawUrl) for the inputs the guard sees: scheme, "://", host.     *)
(* The host ends at the next ":" or "/" (here: at the next "://" token).   *)
(* A host whose last label is a number is an IPv4 address and is           *)
(* serialised as four decimal octets; an IPv6 address must be bracketed    *)
(* and its hostname keeps the brackets.                                    *)
(***************************************************************************)
Bracketed == {W("[::1]")}
Unbracketed == {W("::1")}

\* the four octets of an IPv4 host of k numbers: the last one fills the bytes left
\* (a single number is taken below 2^31)
Ipv4Room(k) == CASE k = 4 -> 256 [] k = 3 -> 65536 [] OTHER -> 16777216
Ipv4Octets(nums) ==
    LET k == Len(nums)
        v == nums[k]
    IN  CASE k = 4 -> nums
          [] k = 3 -> <<nums[1], nums[2], v \div 256, v % 256>>
          [] k = 2 -> <<nums[1], v \div 65536, (v \div 256) % 256, v % 256>>
          [] OTHER -> <<v \div 16777216, (v \div 65536) % 256, (v \div 256) % 256, v % 256>>

Ipv4Text(o) == <<N(o[1]), Dot, N(o[2]), Dot, N(o[3]), Dot, N(o[4])>>

FailedUrl == [ok |-> FALSE, protocol |-> "", hostname |-> EmptyText]

ParseHost(scheme, host) ==
    LET pieces == split(host)
        k == Len(pieces)
        nums == [i \in 1..k |-> Number(pieces[i])]
        lastIsNumber == pieces[k] # EmptyText /\ nums[k] # NaN
    IN  IF host = EmptyText THEN FailedUrl
        ELSE IF Len(host) = 1 /\ host[1] \in Bracketed
             THEN [ok |-> TRUE, protocol |-> scheme, hostname |-> host]
        ELSE IF \E i \in 1..Len(host) : host[i] \in Unbracketed \cup Bracketed
             THEN FailedUrl
        ELSE IF lastIsNumber
             THEN IF \/ k > 4
                     \/ \E i \in 1..k : pieces[i] = EmptyText \/ nums[i] = NaN
                     \/ \E i \in 1..(k - 1) : nums[i] > 255
                     \/ k > 1 /\ nums[k] >= Ipv4Room(k)
                  THEN FailedUrl
                  ELSE [ok |-> TRUE, protocol |-> scheme,
                        hostname |-> Ipv4Text(Ipv4Octets(nums))]
        ELSE [ok |-> TRUE, protocol |-> scheme, hostname |-> toLowerCase(host)]

ParseURL(rawUrl) ==
    IF Len(rawUrl) < 2 \/ rawUrl[1].isNum \/ rawUrl[2] # Sep THEN FailedUrl
    ELSE LET rest == SubSeq(rawUrl, 3, Len(rawUrl))
             e == FirstStop(rest, 1, {Sep})
         IN  ParseHost(LowerWord(rawUrl[1].s), SubSeq(rest, 1, e - 1))

\* index.ts:15-36.  parts[1], parts[2] are the code's parts[0], parts[1].
isUrlSafeMut172(rawUrl) ==
    LET parsed == ParseURL(rawUrl)
        hostname == toLowerCase(parsed.hostname)
        parts == [i \in 1..Len(split(hostname)) |-> Number(split(hostname)[i])]
    IN  IF ~parsed.ok THEN FALSE
        ELSE IF parsed.protocol # "http" /\ parsed.protocol # "https" THEN FALSE
        ELSE IF hostname \in {<<W("localhost")>>, <<N(127), Dot, N(0), Dot, N(0), Dot, N(1)>>,
                              <<W("::1")>>} THEN FALSE
        ELSE IF hostname = <<N(169), Dot, N(254), Dot, N(169), Dot, N(254)>> THEN FALSE
        ELSE IF Len(parts) = 4 /\ \A i \in 1..4 : parts[i] # NaN
             THEN IF parts[1] = 10 THEN FALSE
                  ELSE IF parts[1] = 172 /\ parts[2] >= 16 /\ parts[2] < 31 THEN FALSE
                  ELSE IF parts[1] = 192 /\ parts[2] = 168 THEN FALSE
                  ELSE IF parts[1] = 0 THEN FALSE
                  ELSE TRUE
        ELSE TRUE

isUrlSafe(rawUrl) ==
    LET parsed == ParseURL(rawUrl)
        hostname == toLowerCase(parsed.hostname)
        parts == [i \in 1..Len(split(hostname)) |-> Number(split(hostname)[i])]
    IN  IF ~parsed.ok THEN FALSE
        ELSE IF parsed.protocol # "http" /\ parsed.protocol # "https" THEN FALSE
        ELSE IF hostname \in {<<W("localhost")>>, <<N(127), Dot, N(0), Dot, N(0), Dot, N(1)>>,
                              <<W("::1")>>} THEN FALSE
        ELSE IF hostname = <<N(169), Dot, N(254), Dot, N(169), Dot, N(254)>> THEN FALSE
        ELSE IF Len(parts) = 4 /\ \A i \in 1..4 : parts[i] # NaN
             THEN IF parts[1] = 10 THEN FALSE
                  ELSE IF parts[1] = 172 /\ parts[2] >= 16 /\ parts[2] <= 31 THEN FALSE
                  ELSE IF parts[1] = 192 /\ parts[2] = 168 THEN FALSE
                  ELSE IF parts[1] = 0 THEN FALSE
                  ELSE TRUE
        ELSE TRUE

\* index.ts:189-192: an argument without http:// or https:// in front gets https://
NormalizeUrlMutHttpsOnly(args) ==
    IF ~startsWith(args, "https")
    THEN <<W("https"), Sep>> \o args
    ELSE args
NormalizeUrl(args) ==
    IF ~startsWith(args, "http") /\ ~startsWith(args, "https")
    THEN <<W("https"), Sep>> \o args
    ELSE args

(***************************************************************************)
(* The session pool.                                                       *)
(***************************************************************************)
\* index.ts:11 sets 5; the pool is checked with a smaller capacity
MAX_SESSIONS == 2
SESSION_IDLE_MS == 600000

NumActors == 3
MaxProcs == 3
MaxStarted == 3
MaxTicks == 1
MaxIdlePeriods == 1

Actors == 1..NumActors
Slots == 1..MaxProcs
Families == {"pinchtab", "playwright"}

\* PageInfo, reduced to the field the handlers read back (url)
NoPage == [present |-> FALSE, url |-> EmptyText]
Page(u) == [present |-> TRUE, url |-> u]

AboutBlank == <<W("about:blank")>>
FtpArgs == <<W("ftp"), Sep, W("internal")>>
PrivateArgs == <<W("http"), Sep, N(10), Dot, N(1), Dot, N(2), Dot, N(3)>>
RouterUrl == <<W("http"), Sep, N(192), Dot, N(168), Dot, N(1), Dot, N(1)>>

\* what the actors type after /browse, and where a page may lead (redirect, link)
BrowseArgs == {FtpArgs, PrivateArgs}
PageUrls == {RouterUrl}

Idle == [kind |-> "idle", pc |-> "idle", chatId |-> 0, args |-> EmptyText,
         url |-> EmptyText, victim |-> 0, cleaning |-> {}, backend |-> 0, promise |-> 0]

\* ---- Map<number, SessionEntry> as a sequence in insertion order ----
MapHas(m, chatId) == \E i \in DOMAIN m : m[i].chatId = chatId
MapIndex(m, chatId) == CHOOSE i \in DOMAIN m : m[i].chatId = chatId
MapGet(m, chatId) == m[MapIndex(m, chatId)]
MapSet(m, entry) ==
    IF MapHas(m, entry.chatId)
    THEN [m EXCEPT ![MapIndex(m, entry.chatId)] = entry]
    ELSE Append(m, entry)
MapDelete(m, chatId) == SelectSeq(m, LAMBDA e : e.chatId # chatId)
LiveActors == {sessions[i].chatId : i \in DOMAIN sessions}

\* ---- timers ----
TimerIds(armedSet) == {t.id : t \in armedSet}
\* the handle setTimeout returns: an id no armed timer and no entry holds
NewTimerId(armedSet, m) ==
    LET used == TimerIds(armedSet) \cup {m[i].timer : i \in DOMAIN m}
    IN  CHOOSE id \in 1..(Cardinality(used) + 1) :
            /\ id \notin used
            /\ \A j \in 1..(id - 1) : j \in used
setTimeout(armedSet, id, chatId) ==
    armedSet \cup {[id |-> id, chatId |-> chatId, due |-> now + SESSION_IDLE_MS]}
clearTimeout(armedSet, id) == {t \in armedSet : t.id # id}

\* ---- backends ----
\* createPinchtabBackend / createPlaywrightBackend (pinchtab-backend.ts:85-86, 206-208):
\* launched = the instance holds a browser (pinchtab-backend.ts:207-216)
NewBackend(chatId, family) ==
    [owner |-> chatId, family |-> family, cleanups |-> 0, launched |-> FALSE,
     top |-> IF family = "pinchtab" THEN EmptyText ELSE AboutBlank]
\* backend.cleanup() is called on the instances in bset
CleanupCalled(bs, bset) ==
    [b \in DOMAIN bs |-> IF b \in bset THEN [bs[b] EXCEPT !.cleanups = @ + 1] ELSE bs[b]]
\* cleanup() has something to close and awaits it (pinchtab-backend.ts:135-137, 285-294)
CleanupAwaitsIo(bs, b) == bs[b].family = "playwright" /\ bs[b].launched
\* cleanup() has closed page and browser (pinchtab-backend.ts:286-293)
CleanupSettled(bs, bset) ==
    [b \in DOMAIN bs |-> IF b \in bset THEN [bs[b] EXCEPT !.launched = FALSE] ELSE bs[b]]

\* index.ts:79: the pool counts as full
AtCapacity(m) == Len(m) >= MAX_SESSIONS

\* index.ts:80-81: [...sessions.entries()].sort(by lastUsed)[0], the sort being stable
OldestMutNewest(m) ==
    CHOOSE i \in DOMAIN m : \A j \in DOMAIN m :
        \/ m[i].lastUsed > m[j].lastUsed
        \/ m[i].lastUsed = m[j].lastUsed /\ i >= j
Oldest(m) ==
    CHOOSE i \in DOMAIN m : \A j \in DOMAIN m :
        \/ m[i].lastUsed < m[j].lastUsed
        \/ m[i].lastUsed = m[j].lastUsed /\ i <= j

\* index.ts:65-66: what evictSession removes once cleanup has settled
EvictedCacheMutKeep(cache, chatId) == cache
EvictedCache(cache, chatId) == [cache EXCEPT ![chatId] = NoPage]
EvictedSessions(m, chatId) == MapDelete(m, chatId)

FreeSlot == CHOOSE p \in Slots : procs[p] = Idle /\ \A q \in 1..(p - 1) : procs[q] # Idle
HasFreeSlot == \E p \in Slots : procs[p] = Idle
Ticks == now % SESSION_IDLE_MS
IdlePeriods == now \div SESSION_IDLE_MS

PoolInit ==
    /\ sessions = << >>
    /\ pageCache = [a \in Actors |-> NoPage]
    /\ detectionPromise = 0
    /\ promises = << >>
    /\ backends = << >>
    /\ armed = {}
    /\ now = 0
    /\ procs = [p \in Slots |-> Idle]
    /\ started = 0
    /\ seen = 0

GuardIdle ==
    /\ gText = EmptyText
    /\ gStage = "off"
    /\ gSafe = FALSE

\* no handler has reported anything
NoReply == [op |-> "none", outcome |-> "none"]
OpsIdle ==
    /\ tabs = << >>
    /\ reply = NoReply

(***************************************************************************)
(* The module state as one record, so that the synchronous pieces of       *)
(* getSession and evictSession compose.                                    *)
(***************************************************************************)
Pool ==
    [sessions |-> sessions, pageCache |-> pageCache,
     detectionPromise |-> detectionPromise, promises |-> promises,
     backends |-> backends, armed |-> armed, procs |-> procs]

Becomes(S) ==
    /\ sessions' = S.sessions
    /\ pageCache' = S.pageCache
    /\ detectionPromise' = S.detectionPromise
    /\ promises' = S.promises
    /\ backends' = S.backends
    /\ armed' = S.armed
    /\ procs' = S.procs

\* the handler calls the backend operation (index.ts:203, 387): a Playwright instance
\* without a browser first awaits chromium.launch() (pinchtab-backend.ts:210-214)
OpStart(bs, b) ==
    IF bs[b].family = "playwright" /\ ~bs[b].launched THEN "launch" ELSE "opWait"

\* getSession, index.ts:86-92, then the handler's call of the backend operation
Create(S, p) ==
    LET a == S.procs[p].chatId
        id == NewTimerId(S.armed, S.sessions)
        b == Len(S.backends) + 1
    IN  [S EXCEPT
           !.backends = Append(@, NewBackend(a, S.promises[S.procs[p].promise].family)),
           !.armed = setTimeout(@, id, a),
           !.sessions = MapSet(@, [chatId |-> a, backend |-> b, lastUsed |-> now,
                                   timer |-> id]),
           !.procs[p].pc = OpStart(Append(S.backends,
                                          NewBackend(a, S.promises[S.procs[p].promise].family)), b),
           !.procs[p].backend = b]

\* detectBackend(), index.ts:51-58, and the await of it, index.ts:85
DetectMutReprobes(S, p) ==
    IF S.detectionPromise = 0 \/ ~S.promises[S.detectionPromise].resolved
    THEN [S EXCEPT
            !.promises = Append(@, [resolved |-> FALSE, family |-> "none",
                                    waiters |-> <<p>>]),
            !.detectionPromise = Len(S.promises) + 1,
            !.procs[p].pc = "detect",
            !.procs[p].promise = Len(S.promises) + 1]
    ELSE Create([S EXCEPT !.procs[p].promise = S.detectionPromise], p)
Detect(S, p) ==
    IF S.detectionPromise = 0
    THEN [S EXCEPT
            !.promises = Append(@, [resolved |-> FALSE, family |-> "none",
                                    waiters |-> <<p>>]),
            !.detectionPromise = Len(S.promises) + 1,
            !.procs[p].pc = "detect",
            !.procs[p].promise = Len(S.promises) + 1]
    ELSE IF ~S.promises[S.detectionPromise].resolved
    THEN [S EXCEPT
            !.promises[S.detectionPromise].waiters = Append(@, p),
            !.procs[p].pc = "detect",
            !.procs[p].promise = S.detectionPromise]
    ELSE Create([S EXCEPT !.procs[p].promise = S.detectionPromise], p)

\* evictSession, index.ts:61-64: up to the await of cleanup()
EvictBegin(S, chatId) ==
    LET entry == MapGet(S.sessions, chatId)
    IN  [S EXCEPT !.armed = clearTimeout(@, entry.timer),
                  !.backends = CleanupCalled(@, {entry.backend})]

\* evictSession, index.ts:65-66: after the await of cleanup()
EvictEnd(S, chatId, bset) ==
    [S EXCEPT !.sessions = EvictedSessions(@, chatId),
              !.pageCache = EvictedCache(@, chatId),
              !.backends = CleanupSettled(@, bset)]

\* evictSession, index.ts:60-67, as a call whose cleanup has no browser to close: it
\* runs to its end without waiting
evictSessionMutClears(S, chatId) ==
    IF ~MapHas(S.sessions, chatId) THEN [S EXCEPT !.pageCache = EvictedCache(@, chatId)]
    ELSE EvictEnd(EvictBegin(S, chatId), chatId, {})
evictSession(S, chatId) ==
    IF ~MapHas(S.sessions, chatId) THEN S
    ELSE EvictEnd(EvictBegin(S, chatId), chatId, {})

\* getSession, index.ts:70-76: the actor has an entry
RefreshMutKeepsTimer(S, p) ==
    LET a == S.procs[p].chatId
        i == MapIndex(S.sessions, a)
        id == NewTimerId(S.armed, S.sessions)
    IN  [S EXCEPT !.sessions[i].lastUsed = now,
                  !.sessions[i].timer = id,
                  !.armed = setTimeout(@, id, a),
                  !.procs[p].pc = OpStart(S.backends, S.sessions[i].backend),
                  !.procs[p].backend = S.sessions[i].backend]
Refresh(S, p) ==
    LET a == S.procs[p].chatId
        i == MapIndex(S.sessions, a)
        cleared == clearTimeout(S.armed, S.sessions[i].timer)
        id == NewTimerId(cleared, MapDelete(S.sessions, a))
    IN  [S EXCEPT !.sessions[i].lastUsed = now,
                  !.sessions[i].timer = id,
                  !.armed = setTimeout(cleared, id, a),
                  !.procs[p].pc = OpStart(S.backends, S.sessions[i].backend),
                  !.procs[p].backend = S.sessions[i].backend]

\* getSession, index.ts:69-93, from its call to its first await of I/O
getSession(S, p) ==
    LET a == S.procs[p].chatId
        oldest == S.sessions[Oldest(S.sessions)]
    IN  IF MapHas(S.sessions, a) THEN Refresh(S, p)
        ELSE IF AtCapacity(S.sessions)
        THEN IF CleanupAwaitsIo(S.backends, oldest.backend)
             THEN [EvictBegin(S, oldest.chatId) EXCEPT
                      !.procs[p].pc = "evicting",
                      !.procs[p].victim = oldest.chatId,
                      !.procs[p].cleaning = {oldest.backend}]
             ELSE Detect(EvictEnd(EvictBegin(S, oldest.chatId), oldest.chatId, {}), p)
        ELSE Detect(S, p)

\* the continuations of `await detectBackend()` (index.ts:85), in waiting order
RECURSIVE ResumeAll(_, _)
ResumeAll(S, waiters) ==
    IF waiters = << >> THEN S
    ELSE ResumeAll(Create(S, Head(waiters)), Tail(waiters))

\* browsePlugin.cleanup, index.ts:482-487: after the await of the cleanups
TeardownEnd(S, bset) ==
    [S EXCEPT !.armed = {t \in @ : \A i \in DOMAIN S.sessions : S.sessions[i].timer # t.id},
              !.sessions = << >>,
              !.pageCache = [a \in Actors |-> NoPage],
              !.detectionPromise = 0,
              !.backends = CleanupSettled(@, bset)]

(***************************************************************************)
(* Handlers.  A handler call occupies a slot of procs while it awaits I/O; *)
(* pc names the await it is suspended at.                                  *)
(***************************************************************************)
Spawned(S, rec) == [S EXCEPT !.procs[FreeSlot] = rec]
Returned(S, p) == [S EXCEPT !.procs[p] = Idle]
CanStart == started < MaxStarted /\ HasFreeSlot
Arrives(a) ==
    /\ CanStart
    /\ a <= seen + 1
    /\ started' = started + 1
    /\ seen' = IF a > seen THEN a ELSE seen

\* index.ts:189-199: where /browse <args> goes after the guard
NavigateEntryMutUnguarded(args) == "gs"
NavigateEntry(args) == IF ~isUrlSafe(NormalizeUrl(args)) THEN "rejected" ELSE "gs"

\* browseCommand, index.ts:150-199, up to its first await (the refusal or '載入中')
BrowseNavigate(a, args) ==
    /\ Arrives(a)
    /\ Becomes(Spawned(Pool, [Idle EXCEPT !.kind = "navigate", !.pc = NavigateEntry(args),
                                          !.chatId = a, !.args = args,
                                          !.url = NormalizeUrl(args)]))
    /\ UNCHANGED now
    /\ UNCHANGED <<guardVars, opVars>>

\* index.ts:195-196: the refusal has been sent, the handler returns
RejectReplied(p) ==
    /\ procs[p].pc = "rejected"
    /\ Becomes(Returned(Pool, p))
    /\ UNCHANGED <<now, started, seen>>
    /\ UNCHANGED <<guardVars, opVars>>

\* handleCallback 'refresh' (index.ts:381-382), up to its first await
BrowseRefresh(a) ==
    /\ Arrives(a)
    /\ Becomes(Spawned(Pool, [Idle EXCEPT !.kind = "refresh", !.pc = "gs", !.chatId = a]))
    /\ UNCHANGED now
    /\ UNCHANGED <<guardVars, opVars>>

\* index.ts:384-385: refresh with nothing cached returns
RefreshNothing(p) ==
    /\ procs[p].pc = "gs" /\ procs[p].kind = "refresh"
    /\ ~pageCache[procs[p].chatId].present
    /\ Becomes(Returned(Pool, p))
    /\ UNCHANGED <<now, started, seen>>
    /\ UNCHANGED <<guardVars, opVars>>

\* the url the handler will navigate to: refresh reads it from the cache (index.ts:384-387)
TargetUrl(p) ==
    IF procs[p].kind = "refresh" THEN pageCache[procs[p].chatId].url ELSE procs[p].url

\* the first await has settled and the handler goes on to getSession (index.ts:199-202, 382-386)
Proceeds(p) ==
    /\ procs[p].pc = "gs"
    /\ procs[p].kind = "refresh" => pageCache[procs[p].chatId].present

Entered(p) == [Pool EXCEPT !.procs[p].url = TargetUrl(p)]

\* getSession, index.ts:70-76: the actor has an entry
GetSessionExisting(p) ==
    /\ Proceeds(p)
    /\ MapHas(sessions, procs[p].chatId)
    /\ Becomes(getSession(Entered(p), p))
    /\ UNCHANGED <<now, started, seen>>
    /\ UNCHANGED <<guardVars, opVars>>

\* getSession, index.ts:79-82: the pool is full and the oldest entry is evicted
GetSessionEvict(p) ==
    /\ Proceeds(p)
    /\ ~MapHas(sessions, procs[p].chatId)
    /\ AtCapacity(sessions)
    /\ Becomes(getSession(Entered(p), p))
    /\ UNCHANGED <<now, started, seen>>
    /\ UNCHANGED <<guardVars, opVars>>

\* getSession, index.ts:79 (not full) and 85-92
GetSessionDetect(p) ==
    /\ Proceeds(p)
    /\ ~MapHas(sessions, procs[p].chatId)
    /\ ~AtCapacity(sessions)
    /\ Becomes(getSession(Entered(p), p))
    /\ UNCHANGED <<now, started, seen>>
    /\ UNCHANGED <<guardVars, opVars>>

\* evictSession, index.ts:64-67: the cleanup has closed the browser (a rejection is
\* swallowed); in getSession the call returns and index.ts:85-92 follow
EvictSettled(p) ==
    /\ procs[p].pc = "evicting"
    /\ LET S == EvictEnd(Pool, procs[p].victim, procs[p].cleaning)
       IN  IF procs[p].kind = "timer"
           THEN Becomes(Returned(S, p))
           ELSE Becomes(Detect([S EXCEPT !.procs[p].victim = 0, !.procs[p].cleaning = {}], p))
    /\ UNCHANGED <<now, started, seen>>
    /\ UNCHANGED <<guardVars, opVars>>

\* isPinchtabAvailable() settles (pinchtab-backend.ts:141-151, index.ts:53-55) and the
\* getSession calls awaiting the promise resume
ProbeSettled(i, family) ==
    /\ i \in DOMAIN promises
    /\ ~promises[i].resolved
    /\ Becomes(ResumeAll([Pool EXCEPT !.promises[i] = [resolved |-> TRUE, family |-> family,
                                                       waiters |-> << >>]],
                         promises[i].waiters))
    /\ UNCHANGED <<now, started, seen>>
    /\ UNCHANGED <<guardVars, opVars>>

\* ensurePage, pinchtab-backend.ts:212-216: chromium.launch() has returned a browser
BrowserLaunched(p) ==
    /\ procs[p].pc = "launch"
    /\ Becomes([Pool EXCEPT !.backends[procs[p].backend].launched = TRUE,
                            !.procs[p].pc = "opWait"])
    /\ UNCHANGED <<now, started, seen>>
    /\ UNCHANGED <<guardVars, opVars>>

\* the url of the PageInfo a successful navigate returns: pinchtab-backend.ts:94-95
\* (the url given), pinchtab-backend.ts:161, 222 (page.url() after the load, wherever it led)
ResultUrls(p) ==
    IF backends[procs[p].backend].family = "pinchtab"
    THEN {procs[p].url}
    ELSE {procs[p].url} \cup PageUrls

\* navigate returned info with info.url = final: index.ts:203-204, 387-388
OpSucceeded(p, final) ==
    /\ procs[p].pc = "opWait"
    /\ final \in ResultUrls(p)
    /\ Becomes(Returned([Pool EXCEPT !.backends[procs[p].backend].top = final,
                                     !.pageCache[procs[p].chatId] = Page(final)], p))
    /\ UNCHANGED <<now, started, seen>>
    /\ UNCHANGED <<guardVars, opVars>>

\* the operation threw: the catch block reports it (index.ts:212-218, 395-398)
OpFailed(p) ==
    /\ procs[p].pc \in {"launch", "opWait"}
    /\ Becomes(Returned(Pool, p))
    /\ UNCHANGED <<now, started, seen>>
    /\ UNCHANGED <<guardVars, opVars>>

\* an idle timer fires: () => { evictSession(chatId) }, index.ts:74, 90, 60-67
TimerFire(t) ==
    /\ t \in armed
    /\ now >= t.due
    /\ LET S == [Pool EXCEPT !.armed = @ \ {t}]
       IN  IF /\ MapHas(sessions, t.chatId)
              /\ CleanupAwaitsIo(backends, MapGet(sessions, t.chatId).backend)
           THEN /\ HasFreeSlot
                /\ Becomes(Spawned(EvictBegin(S, t.chatId),
                                   [Idle EXCEPT !.kind = "timer", !.pc = "evicting",
                                                !.chatId = t.chatId,
                                                !.victim = t.chatId,
                                                !.cleaning = {MapGet(sessions, t.chatId).backend}]))
           ELSE Becomes(evictSession(S, t.chatId))
    /\ UNCHANGED <<now, started, seen>>
    /\ UNCHANGED <<guardVars, opVars>>

\* browsePlugin.cleanup, index.ts:477-488, from its call to its first await of I/O
Teardown ==
    /\ started < MaxStarted
    /\ started' = started + 1
    /\ LET held == {sessions[i].backend : i \in DOMAIN sessions}
           closing == {b \in held : CleanupAwaitsIo(backends, b)}
           S == [Pool EXCEPT !.backends = CleanupCalled(@, held)]
       IN  IF closing = {} THEN Becomes(TeardownEnd(S, {}))
           ELSE /\ HasFreeSlot
                /\ Becomes(Spawned(S, [Idle EXCEPT !.kind = "teardown", !.pc = "teardown",
                                                   !.cleaning = closing]))
    /\ UNCHANGED <<now, seen>>
    /\ UNCHANGED <<guardVars, opVars>>

\* browsePlugin.cleanup, index.ts:481-487: the cleanups have settled
TeardownSettled(p) ==
    /\ procs[p].pc = "teardown"
    /\ Becomes(Returned(TeardownEnd(Pool, procs[p].cleaning), p))
    /\ UNCHANGED <<now, started, seen>>
    /\ UNCHANGED <<guardVars, opVars>>

\* time passes
Tick ==
    /\ Ticks < MaxTicks
    /\ now' = now + 1
    /\ UNCHANGED <<sessions, pageCache, detectionPromise, promises, backends, armed, procs,
                   started, seen>>
    /\ UNCHANGED <<guardVars, opVars>>

IdlePeriod ==
    /\ IdlePeriods < MaxIdlePeriods
    /\ now' = now + SESSION_IDLE_MS
    /\ UNCHANGED <<sessions, pageCache, detectionPromise, promises, backends, armed, procs,
                   started, seen>>
    /\ UNCHANGED <<guardVars, opVars>>

Init == PoolInit /\ GuardIdle /\ OpsIdle

Next ==
    \/ \E a \in Actors, args \in BrowseArgs : BrowseNavigate(a, args)
    \/ \E a \in Actors : BrowseRefresh(a)
    \/ \E p \in Slots : RejectReplied(p)
    \/ \E p \in Slots : RefreshNothing(p)
    \/ \E p \in Slots : GetSessionExisting(p)
    \/ \E p \in Slots : GetSessionEvict(p)
    \/ \E p \in Slots : GetSessionDetect(p)
    \/ \E p \in Slots : EvictSettled(p)
    \/ \E i \in DOMAIN promises, f \in Families : ProbeSettled(i, f)
    \/ \E p \in Slots : BrowserLaunched(p)
    \/ \E p \in Slots, u \in PageUrls \cup {NormalizeUrl(x) : x \in BrowseArgs} :
          OpSucceeded(p, u)
    \/ \E p \in Slots : OpFailed(p)
    \/ \E t \in armed : TimerFire(t)
    \/ Teardown
    \/ \E p \in Slots : TeardownSettled(p)
    \/ Tick
    \/ IdlePeriod

Spec == Init /\ [][Next]_vars

(***************************************************************************)
(* The Navigation Guard on its own: a text is drawn, either as the         *)
(* argument of /browse (it is normalised first, index.ts:189-192) or as    *)
(* the url handed to isUrlSafe, and the guard is applied to it.            *)
(***************************************************************************)
SampleA == {0, 8, 9, 10, 11, 127, 169, 171, 172, 173, 191, 192, 193, 255}
SampleB == {0, 8, 15, 16, 17, 31, 32, 167, 168, 169, 254, 255}
SampleC == {0, 8, 169}
SampleD == {1, 2, 8, 254}

Quad(a, b, c, d) == <<N(a), Dot, N(b), Dot, N(c), Dot, N(d)>>

GuardHosts ==
    {Quad(a, b, c, d) : a \in SampleA, b \in SampleB, c \in SampleC, d \in SampleD}
    \cup {Quad(10, 1, 2, 3), Quad(172, 16, 0, 1), Quad(192, 168, 1, 1), Quad(127, 0, 0, 1)}
    \cup {<<W("localhost")>>, <<W("LOCALHOST")>>, <<W("example"), Dot, W("com")>>,
          <<W("internal")>>, <<W("[::1]")>>, <<W("::1")>>,
          <<N(127), Dot, N(1)>>, <<N(10), Dot, N(1)>>, <<N(2130706433)>>,
          <<N(300), Dot, N(1), Dot, N(1), Dot, N(1)>>}
GuardSchemes == {"http", "https", "ftp", "file", "HTTP"}

GuardTexts == GuardHosts \cup {<<W(sc), Sep>> \o h : sc \in GuardSchemes, h \in GuardHosts}

GuardInit ==
    /\ PoolInit
    /\ gText \in GuardTexts
    /\ gStage \in {"args", "url"}
    /\ gSafe = FALSE
    /\ OpsIdle

\* index.ts:189-192
GuardNormalize ==
    /\ gStage = "args"
    /\ gText' = NormalizeUrl(gText)
    /\ gStage' = "url"
    /\ UNCHANGED gSafe
    /\ UNCHANGED poolVars
    /\ UNCHANGED opVars

\* index.ts:194
GuardCheck ==
    /\ gStage = "url"
    /\ gSafe' = isUrlSafe(gText)
    /\ gStage' = "checked"
    /\ UNCHANGED gText
    /\ UNCHANGED poolVars
    /\ UNCHANGED opVars

GuardNext == GuardNormalize \/ GuardCheck

SpecGuard == GuardInit /\ [][GuardNext]_vars

\* the text is http(s)://<host>
IsHttpUrlOf(text, host) ==
    text = <<W("http"), Sep>> \o host \/ text = <<W("https"), Sep>> \o host

\* the text is http(s)://a.b.c.d with every octet in 0..255
IsQuadUrl(text) ==
    /\ Len(text) = 9
    /\ text[1] \in {W("http"), W("https")}
    /\ text[2] = Sep
    /\ \A i \in {3, 5, 7, 9} : text[i].isNum /\ text[i].n \in 0..255
    /\ \A i \in {4, 6, 8} : text[i] = Dot

(***************************************************************************)
(* evictSession on its own: a pool is drawn (entries with their timers,    *)
(* timers left armed without an entry, cached pages with and without an    *)
(* entry) and one actor is evicted twice in sequence.                      *)
(***************************************************************************)
\* the actors of live in increasing order
ActorSeq(live) == SelectSeq([a \in 1..NumActors |-> a], LAMBDA a : a \in live)

DrawnSessions(live) ==
    [i \in 1..Len(ActorSeq(live)) |->
        [chatId |-> ActorSeq(live)[i], backend |-> i, lastUsed |-> 0,
         timer |-> ActorSeq(live)[i]]]

DrawnBackends(live, family) ==
    [i \in 1..Len(ActorSeq(live)) |-> NewBackend(ActorSeq(live)[i], family)]

DrawnTimers(live, stale) ==
    {[id |-> a, chatId |-> a, due |-> SESSION_IDLE_MS] : a \in live}
    \cup {[id |-> NumActors + a, chatId |-> a, due |-> SESSION_IDLE_MS] : a \in stale}

EvictInit ==
    /\ \E live \in SUBSET Actors, stale \in SUBSET Actors, family \in Families :
          /\ Cardinality(live) <= MAX_SESSIONS
          /\ sessions = DrawnSessions(live)
          /\ backends = DrawnBackends(live, family)
          /\ armed = DrawnTimers(live, stale)
          /\ promises = <<[resolved |-> TRUE, family |-> family, waiters |-> << >>]>>
    /\ pageCache \in [Actors -> {NoPage, Page(RouterUrl)}]
    /\ detectionPromise = 1
    /\ now = 0
    /\ procs = [p \in Slots |-> Idle]
    /\ started = 0
    /\ seen = 0
    /\ gText \in {<<N(a)>> : a \in Actors}
    /\ gStage = "evict"
    /\ gSafe = FALSE
    /\ OpsIdle

\* evictSession(chatId), index.ts:60-67
EvictOnce ==
    /\ gStage = "evict"
    /\ Becomes(evictSession(Pool, gText[1].n))
    /\ gStage' = "evicted"
    /\ UNCHANGED <<now, started, seen, gText, gSafe, tabs, reply>>

\* evictSession(chatId) again
EvictAgain ==
    /\ gStage = "evicted"
    /\ Becomes(evictSession(Pool, gText[1].n))
    /\ gStage' = "evictedTwice"
    /\ UNCHANGED <<now, started, seen, gText, gSafe, tabs, reply>>

EvictNext == EvictOnce \/ EvictAgain

SpecEvict == EvictInit /\ [][EvictNext]_vars

(***************************************************************************)
(* The backend operations on their own: one chat sends /browse commands    *)
(* one after the other, each handler running from its call to the await of *)
(* the backend operation and from there to its report; between two         *)
(* commands the chat's idle timer may evict the session.  The backend      *)
(* selection is already made.                                              *)
(***************************************************************************)
MaxOps == 3
OpsChat == 1
LinksKept == 30
InputsKept == 20
MAX_TEXT_LENGTH == 2000

\* a document: its url, the a[href] elements with a label and an http(s) href
\* (pinchtab-backend.ts:229-235), the input, textarea and select elements
\* (pinchtab-backend.ts:253-255), the length of its text (pinchtab-backend.ts:164-168)
ExampleUrl == <<W("https"), Sep, W("example"), Dot, W("com")>>
IndexUrl == <<W("https"), Sep, W("example"), Dot, W("com"), W("/index")>>
BlankDoc == [url |-> AboutBlank, anchors |-> 0, fields |-> 0, chars |-> 0]
OpsDocs == {[url |-> ExampleUrl, anchors |-> 2, fields |-> 1, chars |-> 120],
            [url |-> IndexUrl, anchors |-> LinksKept + 1, fields |-> 0,
             chars |-> MAX_TEXT_LENGTH + 500]}

\* what the chat types after "/browse click " or "/browse type "
RefTexts == {W("first"), N(0 - 1), N(0), N(1), N(2), N(LinksKept), N(999)}
NoRef == EmptyText

\* parseInt(ref, 10)
parseInt(ref) ==
    IF Len(ref) = 1 /\ ref[1].isNum THEN [nan |-> FALSE, n |-> ref[1].n]
    ELSE [nan |-> TRUE, n |-> 0]

\* validateNumericRef, index.ts:141-147: TRUE when it throws
validateNumericRefThrows(ref) == parseInt(ref).nan \/ parseInt(ref).n < 0

\* where the I/O of one backend call fails, if it does; "snapshot" is the /snapshot
\* request of the Pinchtab backend (the Playwright backend makes none)
IoFailures == {"none", "ensurePage", "operation", "extract", "snapshot"}
Envs == [fail : IoFailures, doc : OpsDocs]

Min(a, b) == IF a < b THEN a ELSE b
Last(s) == s[Len(s)]
Front(s) == SubSeq(s, 1, Len(s) - 1)

\* PageInfo, with the lengths of its links and inputs lists
NoInfo == [present |-> FALSE, url |-> EmptyText, links |-> 0, inputs |-> 0, text |-> 0]
Info(u, l, i, t) == [present |-> TRUE, url |-> u, links |-> l, inputs |-> i, text |-> t]

\* what a backend instance holds: its Playwright page with the page's history
\* (pinchtab-backend.ts:207-208), its urlHistory (pinchtab-backend.ts:86); info is the
\* PageInfo it returned last
FreshTab == [open |-> FALSE, hist |-> << >>, urlHistory |-> << >>, info |-> NoInfo]

Result(t, outcome, info) == [tab |-> t, outcome |-> outcome, info |-> info]
Returns(t, info) == Result([t EXCEPT !.info = info], "ok", info)

\* extractPageInfo, pinchtab-backend.ts:160-204
extractPageInfo(t, env) ==
    IF env.fail = "extract" THEN Result(t, "ioError", NoInfo)
    ELSE Returns(t, Info(Last(t.hist).url, Min(Last(t.hist).anchors, LinksKept),
                         Min(Last(t.hist).fields, InputsKept),
                         Min(Last(t.hist).chars, MAX_TEXT_LENGTH)))

\* pinchtab-backend.ts:227-230, 247-250: the reference is refused
refRejectedMutZero(index) == index.nan \/ index.n <= 0
refRejected(index) == index.nan \/ index.n < 0

\* ensurePage, pinchtab-backend.ts:210-217
ensurePage(t) == IF t.open THEN t ELSE [t EXCEPT !.open = TRUE, !.hist = <<BlankDoc>>]

\* createPlaywrightBackend, pinchtab-backend.ts:219-283
PlaywrightCall(t, op, ref, env) ==
    LET p == ensurePage(t)
        index == parseInt(ref)
    IN  IF ~t.open /\ env.fail = "ensurePage" THEN Result(t, "ioError", NoInfo)
        ELSE IF op = "navigate"
        THEN IF env.fail = "operation" THEN Result(p, "ioError", NoInfo)
             ELSE extractPageInfo([p EXCEPT !.hist = Append(@, env.doc)], env)
        ELSE IF op = "click"
        THEN IF refRejected(index) THEN Result(p, "refError", NoInfo)
             ELSE IF env.fail = "operation" THEN Result(p, "ioError", NoInfo)
             ELSE IF index.n < Last(p.hist).anchors
                  THEN extractPageInfo([p EXCEPT !.hist = Append(@, env.doc)], env)
                  ELSE extractPageInfo(p, env)
        ELSE IF op = "type"
        THEN IF refRejected(index) THEN Result(p, "refError", NoInfo)
             ELSE IF env.fail = "operation" THEN Result(p, "ioError", NoInfo)
             ELSE extractPageInfo(p, env)
        ELSE IF op = "back"
        THEN IF env.fail # "operation" /\ Len(p.hist) > 1
             THEN extractPageInfo([p EXCEPT !.hist = Front(@)], env)
             ELSE extractPageInfo(p, env)
        ELSE IF env.fail = "operation" THEN Result(p, "ioError", NoInfo)
             ELSE Result(p, "ok", NoInfo)

\* getPageInfo, pinchtab-backend.ts:65-83: the service tells what its page shows; a
\* failing /text request ("extract") rejects the call, a failing /snapshot request is
\* caught and leaves the lists empty (pinchtab-backend.ts:68-69)
getPageInfoMutSnapshotThrows(t, env) ==
    IF env.fail \in {"extract", "snapshot"} THEN Result(t, "ioError", NoInfo)
    ELSE Returns(t, Info(IF t.urlHistory = << >> THEN EmptyText ELSE Last(t.urlHistory),
                         env.doc.anchors, env.doc.fields,
                         Min(env.doc.chars, MAX_TEXT_LENGTH)))
getPageInfo(t, env) ==
    IF env.fail = "extract" THEN Result(t, "ioError", NoInfo)
    ELSE Returns(t, Info(IF t.urlHistory = << >> THEN EmptyText ELSE Last(t.urlHistory),
                         IF env.fail = "snapshot" THEN 0 ELSE env.doc.anchors,
                         IF env.fail = "snapshot" THEN 0 ELSE env.doc.fields,
                         Min(env.doc.chars, MAX_TEXT_LENGTH)))

\* createPinchtabBackend, pinchtab-backend.ts:85-139: every call asks the service
\* first, and pinchtabFetch throws on an answer that is not ok (pinchtab-backend.ts:25-27)
PinchtabCall(t, op, ref, env) ==
    IF env.fail = "operation" THEN Result(t, "ioError", NoInfo)
    ELSE IF op = "navigate"
    THEN getPageInfo([t EXCEPT !.urlHistory = Append(@, env.doc.url)], env)
    ELSE IF op \in {"click", "type"} THEN getPageInfo(t, env)
    ELSE IF op = "back"
    THEN IF Len(t.urlHistory) > 1
         THEN getPageInfo([t EXCEPT !.urlHistory = Front(@)], env)
         ELSE getPageInfo(t, env)
    ELSE Result(t, "ok", NoInfo)

BackendCall(family, t, op, ref, env) ==
    IF family = "pinchtab" THEN PinchtabCall(t, op, ref, env)
    ELSE PlaywrightCall(t, op, ref, env)

\* the catch block of a handler (index.ts:212-218, 247-253, 285-291, 308-314, 328-334):
\* the failure is reported and the handler returns
ReportedMutClearsCache(S, p) ==
    Returned([S EXCEPT !.pageCache[S.procs[p].chatId] = NoPage], p)
ReportedMutEvicts(S, p) == Returned(evictSession(S, S.procs[p].chatId), p)
Reported(S, p) == Returned(S, p)

OpsInit ==
    /\ PoolInit
    /\ GuardIdle
    /\ OpsIdle

\* the selection is made at the first command: detectBackend(), index.ts:51-58, with
\* isPinchtabAvailable() answering at once
Selected(S, family) ==
    IF S.detectionPromise # 0 THEN S
    ELSE [S EXCEPT !.promises = Append(@, [resolved |-> TRUE, family |-> family,
                                            waiters |-> << >>]),
                   !.detectionPromise = Len(S.promises) + 1]

CommandOps == {"navigate", "click", "type", "back", "screenshot"}
RefsOf(op) == IF op \in {"click", "type"} THEN {<<r>> : r \in RefTexts} ELSE {NoRef}

\* handleClick, handleType (index.ts:227-232, 267-272): the reference is refused
\* before any session is looked up
OpsRefused(op, ref) ==
    /\ started < MaxOps
    /\ procs[1] = Idle
    /\ op \in {"click", "type"}
    /\ validateNumericRefThrows(ref)
    /\ started' = started + 1
    /\ reply' = [op |-> op, outcome |-> "refError", ref |-> ref,
                 cacheBefore |-> pageCache[OpsChat], info |-> NoInfo,
                 after |-> IF reply.outcome = "ok" THEN reply.op ELSE "none"]
    /\ UNCHANGED <<sessions, pageCache, detectionPromise, promises, backends, armed, now,
                   procs, seen, tabs>>
    /\ UNCHANGED guardVars

\* browseCommand, handleClick, handleType, handleBack, handleScreenshot: from the
\* command to the await of the backend call (index.ts:199-203, 234-238, 274-278,
\* 295-299, 318-322)
OpsCommand(op, ref, family) ==
    /\ started < MaxOps
    /\ procs[1] = Idle
    /\ op \in {"click", "type"} => ~validateNumericRefThrows(ref)
    /\ detectionPromise # 0 => family = promises[detectionPromise].family
    /\ started' = started + 1
    /\ LET S == getSession(Spawned(Selected(Pool, family),
                                   [Idle EXCEPT !.kind = op, !.pc = "gs",
                                                !.chatId = OpsChat, !.args = ref]), 1)
       IN  /\ Becomes(S)
           /\ tabs' = IF Len(S.backends) > Len(backends) THEN Append(tabs, FreshTab)
                      ELSE tabs
    /\ reply' = [op |-> op, outcome |-> "pending", ref |-> ref,
                 cacheBefore |-> pageCache[OpsChat], info |-> NoInfo,
                 after |-> IF reply.outcome = "ok" THEN reply.op ELSE "none"]
    /\ UNCHANGED <<now, seen>>
    /\ UNCHANGED guardVars

\* the backend call settles and the handler reports (index.ts:203-218, 238-253,
\* 278-291, 299-314, 322-334)
OpsSettled(env) ==
    /\ procs[1].pc \in {"launch", "opWait"}
    /\ LET b == procs[1].backend
           r == BackendCall(backends[b].family, tabs[b], procs[1].kind, procs[1].args, env)
           S == [Pool EXCEPT !.backends[b].launched = r.tab.open]
       IN  /\ tabs' = [tabs EXCEPT ![b] = r.tab]
           /\ reply' = [reply EXCEPT !.outcome = r.outcome, !.info = r.info]
           /\ IF r.outcome # "ok" THEN Becomes(Reported(S, 1))
              ELSE IF procs[1].kind = "screenshot" THEN Becomes(Returned(S, 1))
              ELSE Becomes(Returned([S EXCEPT !.backends[b].top = r.info.url,
                                              !.pageCache[OpsChat] = r.info], 1))
    /\ UNCHANGED <<now, started, seen>>
    /\ UNCHANGED guardVars

\* cleanup(), pinchtab-backend.ts:135-137, 285-294
CleanedUp(family, t) ==
    IF family = "pinchtab" THEN t ELSE [t EXCEPT !.open = FALSE, !.hist = << >>]

\* between two commands the idle timer evicts the chat's session (index.ts:74, 90, 60-67)
OpsIdleEvict ==
    /\ procs[1] = Idle
    /\ started < MaxOps
    /\ MapHas(sessions, OpsChat)
    /\ LET b == MapGet(sessions, OpsChat).backend
       IN  /\ Becomes(EvictEnd(EvictBegin(Pool, OpsChat), OpsChat, {b}))
           /\ tabs' = [tabs EXCEPT ![b] = CleanedUp(backends[b].family, @)]
    /\ UNCHANGED <<now, started, seen, reply>>
    /\ UNCHANGED guardVars

OpsNext ==
    \/ \E op \in CommandOps, ref \in {<<r>> : r \in RefTexts} : OpsRefused(op, ref)
    \/ \E op \in CommandOps, family \in Families : \E ref \in RefsOf(op) :
          OpsCommand(op, ref, family)
    \/ \E env \in Envs : OpsSettled(env)
    \/ OpsIdleEvict

SpecOps == OpsInit /\ [][OpsNext]_vars

(***************************************************************************)
(* Cleanups that fail: a pool is drawn and one call that invokes cleanup() *)
(* (evictSession, a getSession of some chat, the plugin's teardown) runs   *)
(* to its end, the cleanup promises settling as drawn.                     *)
(***************************************************************************)
CleanupOutcomes == {"fulfilled", "rejected"}
CleanupCalls == {"evictSession", "getSession", "teardown"}

\* promise.catch(() => {}), index.ts:64, 479: how the caught promise settles
CaughtMutRethrows(outcome) == outcome
Caught(outcome) == "fulfilled"

\* evictSession, index.ts:60-67, the cleanup settling with the given outcome; threw
\* tells that the call rejected
evictSessionSettled(S, chatId, outcome) ==
    IF ~MapHas(S.sessions, chatId) THEN [pool |-> S, threw |-> FALSE]
    ELSE IF Caught(outcome) = "rejected"
    THEN [pool |-> EvictBegin(S, chatId), threw |-> TRUE]
    ELSE [pool |-> EvictEnd(EvictBegin(S, chatId), chatId,
                            {MapGet(S.sessions, chatId).backend}),
          threw |-> FALSE]

\* getSession, index.ts:69-93, the selection being made and the cleanup of the entry
\* it evicts settling with the given outcome
getSessionSettled(S, p, outcome) ==
    LET a == S.procs[p].chatId
        e == evictSessionSettled(S, S.sessions[Oldest(S.sessions)].chatId, outcome)
    IN  IF ~MapHas(S.sessions, a) /\ AtCapacity(S.sessions)
        THEN IF e.threw THEN e ELSE [pool |-> Detect(e.pool, p), threw |-> FALSE]
        ELSE [pool |-> getSession(S, p), threw |-> FALSE]

\* browsePlugin.cleanup, index.ts:477-488, the cleanups settling with the given outcome
teardownSettled(S, outcome) ==
    LET held == {S.sessions[i].backend : i \in DOMAIN S.sessions}
        T == [S EXCEPT !.backends = CleanupCalled(@, held)]
    IN  IF held # {} /\ Caught(outcome) = "rejected" THEN [pool |-> T, threw |-> TRUE]
        ELSE [pool |-> TeardownEnd(T, held), threw |-> FALSE]

\* the drawn backends hold what their cleanup has to close
DrawnLaunched(live, family) ==
    [i \in 1..Len(ActorSeq(live)) |->
        [NewBackend(ActorSeq(live)[i], family) EXCEPT !.launched = (family = "playwright")]]

\* gText is <<the call, the chat it is made for, how the cleanups settle>>
CleanupInit ==
    /\ \E live \in SUBSET Actors, family \in Families :
          /\ Cardinality(live) <= MAX_SESSIONS
          /\ sessions = DrawnSessions(live)
          /\ backends = DrawnLaunched(live, family)
          /\ armed = DrawnTimers(live, {})
          /\ promises = <<[resolved |-> TRUE, family |-> family, waiters |-> << >>]>>
    /\ pageCache \in [Actors -> {NoPage, Page(RouterUrl)}]
    /\ detectionPromise = 1
    /\ now = 0
    /\ procs = [p \in Slots |-> Idle]
    /\ started = 0
    /\ seen = 0
    /\ gText \in {<<W(c), N(a), W(o)>> : c \in CleanupCalls, a \in Actors, o \in CleanupOutcomes}
    /\ gStage = "cleanup"
    /\ gSafe = FALSE
    /\ OpsIdle

Finished(r) ==
    /\ Becomes(r.pool)
    /\ gStage' = IF r.threw THEN "threw" ELSE "done"
    /\ UNCHANGED <<now, started, seen, gText, gSafe, tabs, reply>>

\* the idle timer's evictSession(chatId), index.ts:90, 60-67
CleanupEvict ==
    /\ gStage = "cleanup" /\ gText[1] = W("evictSession")
    /\ Finished(evictSessionSettled(Pool, gText[2].n, gText[3].s))

\* a handler's getSession(chatId), index.ts:202, up to the backend call; a call that
\* rejects is reported by the handler's catch block (index.ts:212-218)
CleanupGetSession ==
    /\ gStage = "cleanup" /\ gText[1] = W("getSession")
    /\ LET S == Spawned(Pool, [Idle EXCEPT !.kind = "navigate", !.pc = "gs",
                                           !.chatId = gText[2].n])
           r == getSessionSettled(S, 1, gText[3].s)
       IN  Finished(IF r.threw THEN [r EXCEPT !.pool = Reported(@, 1)] ELSE r)

\* browsePlugin.cleanup(), index.ts:477-488
CleanupTeardown ==
    /\ gStage = "cleanup" /\ gText[1] = W("teardown")
    /\ Finished(teardownSettled(Pool, gText[3].s))

CleanupNext == CleanupEvict \/ CleanupGetSession \/ CleanupTeardown

SpecCleanup == CleanupInit /\ [][CleanupNext]_vars

(***************************************************************************)
(* cleanup() on its own: a backend instance is drawn in one of the states  *)
(* its page and browser can be in, and cleanup() runs on it twice, the     *)
(* close() calls settling as drawn.  tabs holds the instance, reply what   *)
(* the last cleanup() did.                                                 *)
(***************************************************************************)
\* page, browser: "null", "open" or "closed" (closed behind the instance's back,
\* pinchtab-backend.ts:211, 286); closes: the close() calls made on the instance
Instance(family, page, browser) ==
    [family |-> family, page |-> page, browser |-> browser, closes |-> << >>]

\* the states an instance can be in: a Pinchtab instance holds nothing
\* (pinchtab-backend.ts:85-86); a Playwright instance holds a page only with a browser
\* (pinchtab-backend.ts:210-216)
Instances ==
    {Instance("pinchtab", "null", "null"), Instance("playwright", "null", "null")}
    \cup {Instance("playwright", p, b) : p \in {"null", "open", "closed"},
                                         b \in {"open", "closed"}}

\* how the close() calls of one cleanup() settle
CloseEnvs == [page : CleanupOutcomes, browser : CleanupOutcomes]

\* createPlaywrightBackend.cleanup, pinchtab-backend.ts:285-294; threw tells that the
\* call rejected
PlaywrightCleanupMutKeepsBrowser(t, env) ==
    LET closesPage == t.page = "open"
        afterPage == IF closesPage
                     THEN [t EXCEPT !.page = "null", !.closes = Append(@, "page")]
                     ELSE t
    IN  IF closesPage /\ Caught(env.page) = "rejected"
        THEN [tab |-> [t EXCEPT !.closes = Append(@, "page")], threw |-> TRUE]
        ELSE IF afterPage.browser = "null" THEN [tab |-> afterPage, threw |-> FALSE]
        ELSE IF Caught(env.browser) = "rejected"
        THEN [tab |-> [afterPage EXCEPT !.closes = Append(@, "browser")], threw |-> TRUE]
        ELSE [tab |-> [afterPage EXCEPT !.closes = Append(@, "browser")],
              threw |-> FALSE]
PlaywrightCleanup(t, env) ==
    LET closesPage == t.page = "open"
        afterPage == IF closesPage
                     THEN [t EXCEPT !.page = "null", !.closes = Append(@, "page")]
                     ELSE t
    IN  IF closesPage /\ Caught(env.page) = "rejected"
        THEN [tab |-> [t EXCEPT !.closes = Append(@, "page")], threw |-> TRUE]
        ELSE IF afterPage.browser = "null" THEN [tab |-> afterPage, threw |-> FALSE]
        ELSE IF Caught(env.browser) = "rejected"
        THEN [tab |-> [afterPage EXCEPT !.closes = Append(@, "browser")], threw |-> TRUE]
        ELSE [tab |-> [afterPage EXCEPT !.browser = "null",
                                        !.closes = Append(@, "browser")],
              threw |-> FALSE]

\* createPinchtabBackend.cleanup, pinchtab-backend.ts:135-137
PinchtabCleanup(t, env) == [tab |-> t, threw |-> FALSE]

cleanup(t, env) ==
    IF t.family = "pinchtab" THEN PinchtabCleanup(t, env) ELSE PlaywrightCleanup(t, env)

ReleaseInit ==
    /\ PoolInit
    /\ gText = EmptyText
    /\ gStage = "release"
    /\ gSafe = FALSE
    /\ tabs \in {<<t>> : t \in Instances}
    /\ reply = NoReply

Released1(stage, env) ==
    /\ tabs' = <<cleanup(tabs[1], env).tab>>
    /\ reply' = [op |-> "cleanup",
                 outcome |-> IF cleanup(tabs[1], env).threw THEN "threw" ELSE "ok",
                 envs |-> IF reply.op = "cleanup" THEN Append(reply.envs, env) ELSE <<env>>,
                 before |-> tabs[1]]
    /\ gStage' = stage
    /\ UNCHANGED <<gText, gSafe>>
    /\ UNCHANGED poolVars

\* cleanup()
ReleaseOnce(env) == gStage = "release" /\ Released1("released", env)

\* cleanup() again
ReleaseAgain(env) == gStage = "released" /\ Released1("releasedTwice", env)

ReleaseNext == \E env \in CloseEnvs : ReleaseOnce(env) \/ ReleaseAgain(env)

SpecRelease == ReleaseInit /\ [][ReleaseNext]_vars

(***************************************************************************)
(* Two chats on their own backends: each has a session, and their          *)
(* commands run one after the other, every call succeeding.  A Pinchtab    *)
(* instance sends its requests to the one service at PINCHTAB_URL          *)
(* (pinchtab-backend.ts:15-24); a request names no chat, session or tab    *)
(* (pinchtab-backend.ts:90-93, 99-102, 108-111, 126-129), so the service   *)
(* applies it to the page it has.  tabs[ServiceTab] is that page.          *)
(***************************************************************************)
MaxShared == 3
SharingChats == {1, 2}
ServiceTab == 3
NoFailure(doc) == [fail |-> "none", doc |-> doc]

\* the service carries out a request on its browser
ServiceDone(svc, op, ref, doc) == PlaywrightCall(svc, op, ref, NoFailure(doc)).tab

\* the page on which the next call of chat a's backend operates
ShownTo(a, ts) ==
    IF backends[a].family = "pinchtab" THEN ensurePage(ts[ServiceTab]).hist
    ELSE ensurePage(ts[a]).hist

ShareInit ==
    /\ \E family \in Families :
          /\ backends = DrawnBackends(SharingChats, family)
          /\ promises = <<[resolved |-> TRUE, family |-> family, waiters |-> << >>]>>
    /\ sessions = DrawnSessions(SharingChats)
    /\ armed = DrawnTimers(SharingChats, {})
    /\ pageCache = [a \in Actors |-> NoPage]
    /\ detectionPromise = 1
    /\ now = 0
    /\ procs = [p \in Slots |-> Idle]
    /\ started = 0
    /\ seen = 0
    /\ GuardIdle
    /\ tabs = <<FreshTab, FreshTab, FreshTab>>
    /\ reply = NoReply

\* a command of chat a, from the handler's call of the backend to the PageInfo
\* (index.ts:202-204, 237-239, 277-279, 298-300)
ShareCommand(a, op, ref, doc) ==
    /\ started < MaxShared
    /\ started' = started + 1
    /\ LET svc == IF backends[a].family = "pinchtab"
                  THEN ServiceDone(tabs[ServiceTab], op, ref, doc)
                  ELSE tabs[ServiceTab]
           r == BackendCall(backends[a].family, tabs[a], op, ref,
                            NoFailure(IF backends[a].family = "pinchtab"
                                      THEN Last(svc.hist) ELSE doc))
       IN  /\ tabs' = [tabs EXCEPT ![a] = r.tab, ![ServiceTab] = svc]
           /\ reply' = [op |-> op, outcome |-> r.outcome, ref |-> ref, actor |-> a,
                        info |-> r.info]
           /\ pageCache' = [pageCache EXCEPT ![a] = Page(r.info.url)]
           /\ backends' = [backends EXCEPT ![a].launched = r.tab.open,
                                           ![a].top = r.info.url]
    /\ UNCHANGED <<sessions, detectionPromise, promises, armed, now, procs, seen>>
    /\ UNCHANGED guardVars

ShareNext ==
    \E a \in SharingChats, op \in {"navigate", "click", "type", "back"}, doc \in OpsDocs :
        \E ref \in (IF op \in {"click", "type"} THEN {<<N(0)>>, <<N(1)>>} ELSE {NoRef}) :
            ShareCommand(a, op, ref, doc)

SpecShare == ShareInit /\ [][ShareNext]_vars

(***************************************************************************)
(* Waiting: one backend call on an instance whose page is open, followed   *)
(* from await to await.  The engine or the service may answer an await,    *)
(* with success or with an error, or never; an await that was given a      *)
(* timeout is rejected when the timeout elapses.  reply holds the call:    *)
(* its awaits, how those passed settled, and its outcome.                  *)
(***************************************************************************)
TIMEOUT_MS == 30000
Unbounded == 0

\* an await of the engine or the service: bound is the timeout it was given, caught
\* tells that its rejection is swallowed by .catch(() => {})
Await(on, bound, caught) == [on |-> on, bound |-> bound, caught |-> caught]

\* extractPageInfo, pinchtab-backend.ts:160-204
ExtractAwaits ==
    <<Await("page.title", Unbounded, FALSE), Await("evaluate text", Unbounded, FALSE),
      Await("evaluate links", Unbounded, FALSE), Await("evaluate inputs", Unbounded, FALSE)>>

\* getPageInfo, pinchtab-backend.ts:65-71
InfoAwaits ==
    <<Await("fetch /text", Unbounded, FALSE), Await("fetch /snapshot", Unbounded, TRUE)>>

\* the awaits of a call, in order (pinchtab-backend.ts:89-133, 220-283)
AwaitsOf(family, op) ==
    IF family = "pinchtab"
    THEN <<Await(IF op \in {"navigate", "back"} THEN "fetch /navigate" ELSE "fetch /action",
                 Unbounded, FALSE)>> \o InfoAwaits
    ELSE IF op = "navigate" THEN <<Await("page.goto", TIMEOUT_MS, FALSE)>> \o ExtractAwaits
    ELSE IF op = "click"
    THEN <<Await("evaluate click", Unbounded, FALSE),
           Await("waitForLoadState", TIMEOUT_MS, TRUE)>> \o ExtractAwaits
    ELSE IF op = "type" THEN <<Await("evaluate type", Unbounded, FALSE)>> \o ExtractAwaits
    ELSE <<Await("page.goBack", TIMEOUT_MS, TRUE)>> \o ExtractAwaits

WaitOps == {"navigate", "click", "type", "back"}

WaitInit ==
    /\ PoolInit
    /\ gText = EmptyText
    /\ gStage = "wait"
    /\ gSafe = FALSE
    /\ tabs = << >>
    /\ reply \in {[op |-> op, family |-> f, awaits |-> AwaitsOf(f, op), settled |-> << >>,
                   outcome |-> "pending"] : op \in WaitOps, f \in Families}

Pending == gStage = "wait" /\ reply.outcome = "pending"
Current == reply.awaits[Len(reply.settled) + 1]

\* the current await settles as how ("fulfilled", "rejected", "timeout"): a rejection
\* that is not caught ends the call, anything else lets it go on
Settles(how) ==
    /\ reply' = [reply EXCEPT
                   !.settled = Append(@, how),
                   !.outcome = IF how # "fulfilled" /\ ~Current.caught THEN "failed"
                               ELSE IF Len(reply.settled) + 1 = Len(reply.awaits) THEN "ok"
                               ELSE "pending"]
    /\ UNCHANGED <<gText, gStage, gSafe, tabs>>

\* the engine or the service answers
Answered(how) ==
    /\ Pending
    /\ how \in CleanupOutcomes
    /\ Settles(how)
    /\ UNCHANGED poolVars

\* the timeout given to the await elapses
TimedOut ==
    /\ Pending
    /\ Current.bound # Unbounded
    /\ Settles("timeout")
    /\ now' = now + Current.bound
    /\ UNCHANGED <<sessions, pageCache, detectionPromise, promises, backends, armed, procs,
                   started, seen>>

WaitNext == (\E how \in CleanupOutcomes : Answered(how)) \/ TimedOut

\* timers are run by the event loop; nothing obliges the engine or the service to answer
SpecWait == WaitInit /\ [][WaitNext]_vars /\ WF_vars(TimedOut)

(***************************************************************************)
(* The pool from a full house: every slot of the pool holds a session      *)
(* whose backend has something to close, the selection is made, and the    *)
(* navigate handlers and the idle timers run from there as in Spec.        *)
(***************************************************************************)
FullHouse == 1..MAX_SESSIONS

FullInit ==
    /\ \E family \in Families :
          /\ backends = DrawnLaunched(FullHouse, family)
          /\ promises = <<[resolved |-> TRUE, family |-> family, waiters |-> << >>]>>
    /\ sessions = DrawnSessions(FullHouse)
    /\ armed = DrawnTimers(FullHouse, {})
    /\ pageCache = [a \in Actors |-> IF a \in FullHouse THEN Page(RouterUrl) ELSE NoPage]
    /\ detectionPromise = 1
    /\ now = 0
    /\ procs = [p \in Slots |-> Idle]
    /\ started = 0
    /\ seen = MAX_SESSIONS
    /\ GuardIdle
    /\ OpsIdle

\* the chats send /browse <url> with a url the guard lets through; timers fire after
\* an idle period
FullNext ==
    \/ \E a \in Actors : BrowseNavigate(a, FtpArgs)
    \/ \E p \in Slots : GetSessionExisting(p)
    \/ \E p \in Slots : GetSessionEvict(p)
    \/ \E p \in Slots : GetSessionDetect(p)
    \/ \E p \in Slots : EvictSettled(p)
    \/ \E p \in Slots : BrowserLaunched(p)
    \/ \E p \in Slots : OpSucceeded(p, procs[p].url)
    \/ \E p \in Slots : OpFailed(p)
    \/ \E t \in armed : TimerFire(t)
    \/ IdlePeriod

SpecFull == FullInit /\ [][FullNext]_vars

(***************************************************************************)
(* Link indexes of the Playwright backend: a document is drawn as the      *)
(* sequence of its a[href] elements, extractPageInfo lists its links and   *)
(* click(ref) picks its target in the same document.  tabs holds the       *)
(* document, reply what the last call returned.                            *)
(***************************************************************************)
MaxAnchors == 3
LabelKept == 100

\* textContent and href of an anchor, as characters
Labels == {<< >>, <<" ">>, <<"x">>, <<" ", "x", " ">>}
Hrefs == {<<"h", "t", "t", "p", "s", ":">>, <<"h", "t", "t", "p", ":">>,
          <<"m", "a", "i", "l", "t", "o", ":">>}
Anchors == [label : Labels, href : Hrefs]
\* a document with more real links than the listing keeps
LongDoc ==
    [k \in 1..(LinksKept + 2) |->
        IF k = 1 THEN [label |-> <<" ">>, href |-> <<"h", "t", "t", "p", ":">>]
        ELSE [label |-> <<"x">>, href |-> <<"h", "t", "t", "p", "s", ":">>]]
LinkDocs == UNION {[1..n -> Anchors] : n \in 0..MaxAnchors} \cup {LongDoc}

\* String.prototype.trim
RECURSIVE trimStart(_)
trimStart(s) == IF s # << >> /\ Head(s) = " " THEN trimStart(Tail(s)) ELSE s
RECURSIVE trimEnd(_)
trimEnd(s) == IF s # << >> /\ Last(s) = " " THEN trimEnd(Front(s)) ELSE s
trim(s) == trimEnd(trimStart(s))

\* .startsWith('http'), pinchtab-backend.ts:177, 236
startsWithHttp(s) == Len(s) >= 4 /\ SubSeq(s, 1, 4) = <<"h", "t", "t", "p">>

\* extractPageInfo, pinchtab-backend.ts:170-179: the links listed; anchor records the
\* element a link was made from
extractLinks(doc) ==
    LET mapped == [k \in 1..Len(doc) |->
                     [label |-> SubSeq(trim(doc[k].label), 1,
                                       Min(Len(trim(doc[k].label)), LabelKept)),
                      url |-> doc[k].href,
                      anchor |-> k]]
        filtered == SelectSeq(mapped, LAMBDA l : l.label # << >> /\ startsWithHttp(l.url))
    IN  SubSeq(filtered, 1, Min(Len(filtered), LinksKept))

\* createPlaywrightBackend.click, pinchtab-backend.ts:232-237: the filter of click
ClickableMutAnyLabel(a) == startsWithHttp(a.href)
Clickable(a) == trim(a.label) # << >> /\ startsWithHttp(a.href)

\* createPlaywrightBackend.click, pinchtab-backend.ts:231-239: the element clicked,
\* 0 when anchors[idx] is undefined
clickTarget(doc, idx) ==
    LET anchors == SelectSeq([k \in 1..Len(doc) |-> k], LAMBDA k : Clickable(doc[k]))
    IN  IF idx < Len(anchors) THEN anchors[idx + 1] ELSE 0

LinksInit ==
    /\ PoolInit
    /\ gText = EmptyText
    /\ gStage = "links"
    /\ gSafe = FALSE
    /\ tabs \in {<<d>> : d \in LinkDocs}
    /\ reply = NoReply

\* extractPageInfo(page)
LinksExtracted ==
    /\ gStage = "links"
    /\ gStage' = "extracted"
    /\ reply' = [op |-> "extract", outcome |-> "ok", links |-> extractLinks(tabs[1])]
    /\ UNCHANGED <<gText, gSafe, tabs>>
    /\ UNCHANGED poolVars

\* click(String(idx)) right after the extraction
LinksClicked(idx) ==
    /\ gStage = "extracted"
    /\ gStage' = "clicked"
    /\ reply' = [op |-> "click", outcome |-> "ok", links |-> reply.links, idx |-> idx,
                 clicked |-> clickTarget(tabs[1], idx)]
    /\ UNCHANGED <<gText, gSafe, tabs>>
    /\ UNCHANGED poolVars

LinksNext ==
    \/ LinksExtracted
    \/ \E idx \in 0..(LinksKept + 2) : idx <= Len(tabs[1]) /\ LinksClicked(idx)

SpecLinks == LinksInit /\ [][LinksNext]_vars

(***************************************************************************)
(* The read-side requests of handleCallback, browse:links and browse:page, *)
(* between the commands of one chat.                                       *)
(***************************************************************************)
MAX_LINKS_DISPLAY == 10
ReadRequests == {"links", "page"}

\* handleCallback, index.ts:346-364, 421-432: what the request leaves of the module
\* state (it reads pageCache.get(chatId) and writes nothing)
ServedMutDropsCache(S, chatId) == [S EXCEPT !.pageCache[chatId] = NoPage]
Served(S, chatId) == S

\* index.ts:347-351, 422-423: the request edits the message
Renders(request, cached) ==
    IF request = "links" THEN cached.present /\ cached.links > 0
    ELSE cached.present

\* handleCallback with data browse:links or browse:page, as a whole: it awaits only
\* the replies to the chat
ReadSide(request) ==
    /\ procs[1] = Idle
    /\ Becomes(Served(Pool, OpsChat))
    /\ reply' = [op |-> request,
                 outcome |-> IF Renders(request, pageCache[OpsChat]) THEN "rendered"
                             ELSE "nothing",
                 shown |-> IF ~Renders(request, pageCache[OpsChat]) THEN NoInfo
                           ELSE IF request = "links"
                           THEN [pageCache[OpsChat] EXCEPT
                                    !.links = Min(@, MAX_LINKS_DISPLAY)]
                           ELSE pageCache[OpsChat]]
    /\ UNCHANGED <<now, started, seen, tabs>>
    /\ UNCHANGED guardVars

\* handleCallback with data browse:refresh, index.ts:381-388: with a cached page it
\* goes the way of a navigate to cached.url (getSession, session.navigate,
\* pageCache.set); without one it returns at once
CallbackRefresh(family) ==
    /\ pageCache[OpsChat].present
    /\ OpsCommand("navigate", NoRef, family)

ReadNext ==
    \/ OpsNext
    \/ \E request \in ReadRequests : ReadSide(request)
    \/ \E family \in Families : CallbackRefresh(family)

SpecRead == OpsInit /\ [][ReadNext]_vars

(***************************************************************************)
(* The quick timers of the reminder plugin (src/plugins/reminder/index.ts).*)
(* sessions holds activeTimers, armed the timeouts and intervals that are  *)
(* set, procs the remind:quick handlers suspended at their awaits, reply   *)
(* the last message sent.                                                  *)
(***************************************************************************)
RemindChats == {1, 2}
QuickSeconds == {45, 60, 90, 120}
StopRequests == {"remind:cancel", "/remind stop", "/remind clear"}

\* setInterval and setTimeout of one quick timer, reminder/index.ts:239, 256
QuickPair(id, chatId, seconds) ==
    {[id |-> id, chatId |-> chatId, kind |-> k, seconds |-> seconds] :
        k \in {"timeout", "interval"}}

\* reminder/index.ts:224-229 (likewise 203-207, 146-150, 131-136): the timer
\* registered for the chat is stopped and forgotten
ClearActive(S, chatId) ==
    IF ~MapHas(S.sessions, chatId) THEN S
    ELSE [S EXCEPT !.armed = {t \in @ : t.id # MapGet(S.sessions, chatId).timer},
                   !.sessions = MapDelete(@, chatId)]

\* handleCallback with data remind:quick:<seconds>, reminder/index.ts:214-235: up to
\* the await of editMessageText
QuickPressed(a, seconds) ==
    /\ CanStart
    /\ started' = started + 1
    /\ Becomes(Spawned(ClearActive(Pool, a),
                       [Idle EXCEPT !.kind = "quick", !.pc = "edit", !.chatId = a,
                                    !.args = <<N(seconds)>>]))
    /\ UNCHANGED <<now, seen>>
    /\ UNCHANGED <<guardVars, opVars>>

\* reminder/index.ts:235-287: the awaits have settled; the interval and the timeout
\* are set and registered in activeTimers
QuickStarted(p) ==
    /\ procs[p].kind = "quick" /\ procs[p].pc = "edit"
    /\ LET a == procs[p].chatId
           seconds == procs[p].args[1].n
           id == NewTimerId(armed, sessions)
       IN  Becomes(Returned([Pool EXCEPT
                                !.armed = @ \cup QuickPair(id, a, seconds),
                                !.sessions = MapSet(@, [chatId |-> a, timer |-> id,
                                                        tickInterval |-> id,
                                                        seconds |-> seconds])], p))
    /\ UNCHANGED <<now, started, seen>>
    /\ UNCHANGED <<guardVars, opVars>>

\* remind:cancel, /remind stop, /remind clear (reminder/index.ts:200-211, 138-150,
\* 122-136)
StopPressed(a, request) ==
    /\ started < MaxStarted
    /\ started' = started + 1
    /\ Becomes(ClearActive(Pool, a))
    /\ reply' = [op |-> request, outcome |-> IF MapHas(sessions, a) THEN "stopped"
                                             ELSE "nothing", actor |-> a]
    /\ UNCHANGED <<now, seen, tabs>>
    /\ UNCHANGED guardVars

\* the timeout of a quick timer fires, reminder/index.ts:256-274: it clears its own
\* interval, deletes the chat's activeTimers entry and sends the time-up message
QuickFired(t) ==
    /\ t \in armed /\ t.kind = "timeout"
    /\ Becomes([Pool EXCEPT !.armed = {u \in @ : u.id # t.id},
                            !.sessions = MapDelete(@, t.chatId)])
    /\ reply' = [op |-> "timeUp", outcome |-> "sent", actor |-> t.chatId]
    /\ UNCHANGED <<now, started, seen, tabs>>
    /\ UNCHANGED guardVars

\* the interval of a quick timer ticks, reminder/index.ts:239-253: the countdown
\* message is edited
QuickTicked(t) ==
    /\ t \in armed /\ t.kind = "interval"
    /\ reply' = [op |-> "tick", outcome |-> "edited", actor |-> t.chatId]
    /\ UNCHANGED <<now, started, seen, tabs>>
    /\ UNCHANGED poolVars
    /\ UNCHANGED guardVars

RemindInit == PoolInit /\ GuardIdle /\ OpsIdle

RemindNext ==
    \/ \E a \in RemindChats, seconds \in QuickSeconds : QuickPressed(a, seconds)
    \/ \E p \in Slots : QuickStarted(p)
    \/ \E a \in RemindChats, request \in StopRequests : StopPressed(a, request)
    \/ \E t \in armed : QuickFired(t)
    \/ \E t \in armed : QuickTicked(t)

SpecRemind == RemindInit /\ [][RemindNext]_vars

(***************************************************************************)
(* Properties.                                                             *)
(***************************************************************************)
InFlight == {p \in Slots : procs[p] # Idle}
ActiveBackends(a) == {b \in DOMAIN backends : backends[b].owner = a /\ backends[b].cleanups = 0}
NeverTornDown == Len(promises) <= 1 /\ (promises # << >> => detectionPromise # 0)

\* C1: in every reachable state the session pool holds at most MAX_SESSIONS entries,
\* however the getSession calls of the actors interleave at their awaits.
PoolWithinCapacity == Len(sessions) <= MAX_SESSIONS

\* a getSession call of a new actor that finds the pool full runs in this step
CapacityEvictionBy(p) ==
    /\ procs[p].pc = "gs" /\ procs'[p].pc \notin {"gs", "idle"}
    /\ ~MapHas(sessions, procs[p].chatId)
    /\ Len(sessions) >= MAX_SESSIONS

\* no entry of the pool has a smaller lastUsed than actor v's
IsOldest(v) ==
    /\ MapHas(sessions, v)
    /\ \A i \in DOMAIN sessions : MapGet(sessions, v).lastUsed <= sessions[i].lastUsed

\* every entry of the pool but those of the actors in gone is in the pool after the step
OthersStay(gone) ==
    \A i \in DOMAIN sessions :
        sessions[i].chatId \notin gone => \E j \in DOMAIN sessions' : sessions'[j] = sessions[i]

\* C2: when getSession of a new actor finds the pool full, the victim it picks has the
\* smallest lastUsed of the entries live at that moment: either the victim's cleanup has
\* a browser to close, the call waits for it and the step removes nothing, or the victim
\* is removed in the step; and when a capacity eviction completes, every entry of an
\* actor other than the victim (and the caller) stays in the pool.
CapacityEvictsOldest ==
    [][\A p \in Slots :
          /\ CapacityEvictionBy(p) =>
                \/ /\ procs'[p].pc = "evicting"
                   /\ IsOldest(procs'[p].victim)
                   /\ sessions' = sessions
                \/ /\ procs'[p].pc # "evicting"
                   /\ \E v \in LiveActors :
                         /\ IsOldest(v)
                         /\ \A j \in DOMAIN sessions' : sessions'[j].chatId # v
                         /\ OthersStay({v})
          /\ (procs[p].pc = "evicting" /\ procs[p].kind # "timer"
                                       /\ procs'[p].pc # "evicting") =>
                OthersStay({procs[p].victim, procs[p].chatId})
      ]_vars

\* a capacity eviction is under way (cleanup invoked, the entry not yet removed) whose
\* victim is strictly older than another entry
CapacityEvictionOfOlder ==
    \E p \in Slots :
        /\ procs[p].pc = "evicting" /\ procs[p].kind # "timer"
        /\ MapHas(sessions, procs[p].victim)
        /\ backends[MapGet(sessions, procs[p].victim).backend].cleanups >= 1
        /\ \E i \in DOMAIN sessions :
              MapGet(sessions, procs[p].victim).lastUsed < sessions[i].lastUsed

\* C3: each actor has at most one backend instance that getSession created and that
\* has not had cleanup() invoked.
OneActiveBackendPerActor == \A a \in Actors : Cardinality(ActiveBackends(a)) <= 1

\* the argument of /browse carries a scheme other than http and https
HasOtherScheme(args) ==
    /\ Len(args) >= 2
    /\ args[2] = Sep
    /\ args[1] \notin {W("http"), W("https")}

\* C4: a /browse request whose argument has a scheme other than http or https is
\* refused by the guard: its handler never gets past the refusal, so it never calls
\* getSession or backend.navigate.
OtherSchemeRefused ==
    \A p \in Slots :
        (procs[p].kind = "navigate" /\ HasOtherScheme(procs[p].args)) =>
            procs[p].pc = "rejected"

\* C5: a navigate request whose url isUrlSafe rejects goes to the refusal and, from
\* its start to its return, leaves the session pool, the timers, the page cache and
\* the memoized detection unchanged, makes no probe and touches no backend.
GuardRejectionFrame ==
    [][\A p \in Slots :
          /\ (procs[p] = Idle /\ procs'[p].kind = "navigate"
                              /\ ~isUrlSafe(procs'[p].url)) =>
                /\ procs'[p].pc = "rejected"
                /\ UNCHANGED <<sessions, armed, pageCache, detectionPromise, promises,
                               backends>>
          /\ (procs[p].pc = "rejected" /\ procs'[p] # procs[p]) =>
                /\ procs'[p] = Idle
                /\ UNCHANGED <<sessions, armed, pageCache, detectionPromise, promises,
                               backends>>
      ]_vars

\* a refused navigate request is in flight while the pool holds a session
RefusalBesideSession ==
    /\ \E p \in Slots : procs[p].pc = "rejected" /\ ~isUrlSafe(procs[p].url)
    /\ sessions # << >>

\* the hosts the guard is to refuse, and to accept
ListedRefused ==
    {Quad(127, 0, 0, 1), <<W("localhost")>>, <<W("[::1]")>>, <<W("::1")>>,
     Quad(169, 254, 169, 254), Quad(10, 1, 2, 3), Quad(172, 16, 0, 1), Quad(192, 168, 1, 1)}
ListedAccepted == {<<W("example"), Dot, W("com")>>, Quad(8, 8, 8, 8)}

\* C6: for an http(s) url whose host is 127.0.0.1, localhost, ::1, 169.254.169.254,
\* 10.1.2.3, 172.16.0.1 or 192.168.1.1 isUrlSafe returns false; for example.com and
\* 8.8.8.8 it returns true.
ListedHostsDecided ==
    gStage = "checked" =>
        /\ \A h \in ListedRefused : IsHttpUrlOf(gText, h) => ~gSafe
        /\ \A h \in ListedAccepted : IsHttpUrlOf(gText, h) => gSafe

\* C7: for every http(s) url with a dotted-quad host a.b.c.d, octets in 0..255,
\* isUrlSafe refuses it exactly if a = 10, or a = 172 and 16 <= b <= 31, or a = 192 and
\* b = 168, or a = 0, or the host is 127.0.0.1 or 169.254.169.254.
QuadRule ==
    (gStage = "checked" /\ IsQuadUrl(gText)) =>
        LET a == gText[3].n
            b == gText[5].n
            host == SubSeq(gText, 3, 9)
        IN  (~gSafe) <=>
               \/ a = 10
               \/ a = 172 /\ b >= 16 /\ b <= 31
               \/ a = 192 /\ b = 168
               \/ a = 0
               \/ host = Quad(127, 0, 0, 1)
               \/ host = Quad(169, 254, 169, 254)

\* the guard has refused a dotted quad 172.31.c.d, the upper edge of 172.16.0.0/12
QuadEdgeRefused ==
    /\ gStage = "checked" /\ IsQuadUrl(gText)
    /\ gText[3].n = 172 /\ gText[5].n = 31
    /\ ~gSafe

\* C8: every url passed to a backend's navigate, by /browse <url> or by the refresh
\* callback, is one isUrlSafe accepts.
NavigatedUrlsGuarded ==
    \A p \in Slots :
        (procs[p].pc \in {"launch", "opWait"} /\ procs[p].kind \in {"navigate", "refresh"}) =>
            isUrlSafe(procs[p].url)

\* cleanup() has been invoked on the instance
Released(b) == backends[b].cleanups >= 1

\* C9: an idle session is evicted by its timer and, once the actors have stopped and
\* nothing is pending (no call in flight, no timer armed, no entry left; the plugin
\* was never torn down), every backend the pool created has been released.
QuiescentReleased ==
    (NeverTornDown /\ InFlight = {} /\ armed = {} /\ sessions = << >>) =>
        \A b \in DOMAIN backends : Released(b)

\* a capacity eviction that removes its victim runs in this step
CapacityEvicts(a) ==
    \E p \in Slots :
        \/ CapacityEvictionBy(p)
        \/ /\ procs[p].pc = "evicting" /\ procs[p].kind # "timer" /\ procs[p].victim = a
           /\ procs'[p].pc # "evicting"

\* an idle eviction that removes its actor's entry runs in this step
IdleEvicts(a) ==
    \/ \E t \in armed : t.chatId = a /\ now >= t.due /\ t \notin armed'
    \/ \E p \in Slots : /\ procs[p].pc = "evicting" /\ procs[p].kind = "timer"
                        /\ procs[p].victim = a
                        /\ procs'[p] = Idle

\* the teardown empties the pool in this step
TeardownEmpties ==
    /\ sessions' = << >>
    /\ \/ started' = started + 1
       \/ \E p \in Slots : procs[p].pc = "teardown" /\ procs'[p] = Idle

\* C10: an actor's session entry leaves the pool only when an evictSession call
\* (capacity or idle) completes for it or at teardown, and in the resulting state the
\* actor has no pageCache entry.
EvictionClearsCache ==
    [][\A a \in Actors :
          (MapHas(sessions, a) /\ ~MapHas(sessions', a)) =>
              /\ ~pageCache'[a].present
              /\ CapacityEvicts(a) \/ IdleEvicts(a) \/ TeardownEmpties
      ]_vars

\* an actor that had browsed a page has been evicted, without a teardown, and has no
\* cached page
EvictedWithoutCache ==
    \E b \in DOMAIN backends :
        /\ NeverTornDown
        /\ InFlight = {}
        /\ backends[b].top \notin {EmptyText, AboutBlank}
        /\ Released(b)
        /\ ~MapHas(sessions, backends[b].owner)
        /\ ~pageCache[backends[b].owner].present

\* C11: evictSession for an actor that has no session entry changes nothing (pool,
\* page cache, timers, backends: no cleanup call), and the second of two evictions
\* of one actor in sequence changes nothing.
EvictAbsentNoop ==
    [][/\ (gStage \in {"evict", "evicted"} /\ gStage' # gStage
                                           /\ ~MapHas(sessions, gText[1].n)) =>
              UNCHANGED poolVars
       /\ (gStage = "evicted" /\ gStage' = "evictedTwice") => UNCHANGED poolVars
      ]_vars

\* an actor that had a session and a cached page has been evicted twice: one cleanup
EvictedTwiceCleanedOnce ==
    /\ gStage = "evictedTwice"
    /\ \E b \in DOMAIN backends :
          /\ backends[b].owner = gText[1].n
          /\ backends[b].cleanups = 1
    /\ ~MapHas(sessions, gText[1].n)
    /\ \E a \in Actors : a # gText[1].n /\ MapHas(sessions, a) /\ pageCache[a].present

\* C12: the availability probe is made at most once between start and teardown: a
\* detection promise is created only while none is memoized, one at a time, and is
\* then memoized; the memoized promise is replaced by nothing and dropped only by the
\* teardown.
ProbeOncePerLife ==
    [][/\ Len(promises') > Len(promises) =>
              /\ detectionPromise = 0
              /\ Len(promises') = Len(promises) + 1
              /\ detectionPromise' = Len(promises')
       /\ (detectionPromise # 0 /\ detectionPromise' # detectionPromise) =>
              /\ detectionPromise' = 0
              /\ TeardownEmpties
      ]_vars

\* two first requests wait for the one detection promise in flight
SharedDetection ==
    /\ Len(promises) = 1
    /\ detectionPromise = 1
    /\ ~promises[1].resolved
    /\ Len(promises[1].waiters) >= 2

\* C13: in every reachable state all live session entries hold backends of one
\* family.
OneFamilyInUse ==
    \A i, j \in DOMAIN sessions :
        backends[sessions[i].backend].family = backends[sessions[j].backend].family


\* an entry of the pool holds backend b
HeldByPool(b) == \E i \in DOMAIN sessions : sessions[i].backend = b

\* browsePlugin.cleanup completes in this step: at once when no cleanup waits for I/O,
\* or when the awaited cleanups have settled
TeardownCompletes ==
    \/ Teardown /\ \A p \in Slots : procs'[p].pc # "teardown"
    \/ \E p \in Slots : TeardownSettled(p)

\* C14: once browsePlugin.cleanup has completed, the pool and the page cache are
\* empty, no idle timer is armed, every backend the pool ever created has had cleanup
\* invoked and the memoized selection is reset, also when getSession calls are in
\* flight during the teardown.  (Stated for teardowns that complete while every
\* backend not yet cleaned up is held by an entry of the pool, so that a failure is
\* the teardown's own.)
TeardownReleasesAll ==
    [][(TeardownCompletes /\ \A b \in DOMAIN backends : backends[b].cleanups = 0 => HeldByPool(b)) =>
          /\ sessions' = << >>
          /\ \A a \in Actors : ~pageCache'[a].present
          /\ armed' = {}
          /\ detectionPromise' = 0
          /\ \A b \in DOMAIN backends' : backends'[b].cleanups >= 1
      ]_vars


\* the handler of the chat's command reports a failure in this step
FailureReported ==
    /\ procs[1] # Idle /\ procs'[1] = Idle
    /\ reply'.outcome \in {"ioError", "refError"}

\* C15: when a backend operation (navigate, click, type, back, screenshot) throws and
\* the handler has reported the failure, the chat's session entry still exists with
\* the backend instance the operation ran on, and the chat's pageCache entry is what
\* it was before the command.
FailedOpKeepsSession ==
    [][FailureReported =>
          /\ MapHas(sessions', OpsChat)
          /\ MapGet(sessions', OpsChat).backend = procs[1].backend
          /\ sessions' = sessions
          /\ pageCache'[OpsChat] = reply'.cacheBefore
      ]_vars

FailedOverCachedPage ==
    /\ reply.outcome = "ioError" /\ reply.op = "back"
    /\ procs[1] = Idle
    /\ pageCache[OpsChat].present
    /\ MapHas(sessions, OpsChat)


\* the drawn call meets a cleanup that rejects
RejectingCleanup(call) == gStage = "cleanup" /\ gText[1] = W(call) /\ gText[3] = W("rejected")

\* C16: a cleanup() that rejects is swallowed: evictSession still removes the entry
\* and its cached page, getSession still evicts the oldest entry and goes on to create
\* the caller's session, teardown still empties pool and cache; no call rejects.
EvictionPastFailingCleanup ==
    [][/\ (RejectingCleanup("evictSession") /\ MapHas(sessions, gText[2].n)) =>
             /\ gStage' = "done"
             /\ ~MapHas(sessions', gText[2].n)
             /\ ~pageCache'[gText[2].n].present
       /\ (/\ RejectingCleanup("getSession")
           /\ ~MapHas(sessions, gText[2].n)
           /\ AtCapacity(sessions)) =>
             /\ gStage' = "done"
             /\ ~MapHas(sessions', sessions[Oldest(sessions)].chatId)
             /\ ~pageCache'[sessions[Oldest(sessions)].chatId].present
             /\ MapHas(sessions', gText[2].n)
             /\ Len(sessions') = MAX_SESSIONS
       /\ (RejectingCleanup("teardown") /\ sessions # << >>) =>
             /\ gStage' = "done"
             /\ sessions' = << >>
             /\ \A a \in Actors : ~pageCache'[a].present
      ]_vars

CreatedPastFailingCleanup ==
    /\ gStage = "done" /\ gText[1] = W("getSession") /\ gText[3] = W("rejected")
    /\ MapHas(sessions, gText[2].n)
    /\ \E b \in DOMAIN backends : backends[b].cleanups = 1 /\ ~HeldByPool(b)


\* the handler of a command op settles in this step, the reference being at or beyond
\* the length n of the list in the PageInfo its backend returned last
SettlesBeyond(op, n) ==
    /\ procs[1].kind = op /\ procs'[1] = Idle
    /\ tabs[procs[1].backend].info.present
    /\ parseInt(procs[1].args).n >= n

\* C17: click(ref) with ref >= links.length of the PageInfo returned last, and
\* type(ref, text) with ref >= inputs.length, fail instead of returning a PageInfo, in
\* both backend implementations.
OutOfRangeRefFails ==
    [][/\ SettlesBeyond("click", tabs[procs[1].backend].info.links) => reply'.outcome # "ok"
       /\ SettlesBeyond("type", tabs[procs[1].backend].info.inputs) => reply'.outcome # "ok"
      ]_vars


\* the handler of a click settles in this step, the click being the backend's next
\* call after a navigate that returned a PageInfo, and the reference an index into that
\* PageInfo's links
ClickAfterNavigateSettles ==
    /\ procs[1].kind = "click" /\ procs'[1] = Idle
    /\ reply.op = "click" /\ reply.after = "navigate"
    /\ tabs[procs[1].backend].info.present
    /\ parseInt(procs[1].args).n >= 0
    /\ parseInt(procs[1].args).n < tabs[procs[1].backend].info.links

\* C18: after navigate(url) has returned a PageInfo, click(ref) with
\* 0 <= ref < links.length of that PageInfo, issued as the next action, never raises
\* the reference error.
ValidRefNoReferenceError ==
    [][ClickAfterNavigateSettles => reply'.outcome # "refError"]_vars

ClickedValidRef ==
    /\ reply.op = "click" /\ reply.after = "navigate" /\ reply.outcome = "ok"
    /\ reply.ref = <<N(0)>>
    /\ backends[Len(backends)].family = "playwright"
    /\ Len(tabs[Len(tabs)].hist) = 3


\* the navigation history of the backend instance b: urlHistory
\* (pinchtab-backend.ts:86), the history of the Playwright page
HistoryOf(b, ts) == IF backends[b].family = "pinchtab" THEN ts[b].urlHistory ELSE ts[b].hist

\* the handler of a back command settles in this step
BackSettles == procs[1].kind = "back" /\ procs'[1] = Idle

\* C19: back() on a backend whose history is empty or holds only the current page
\* never fails, returns a PageInfo and leaves the history as it was; with a longer
\* history it pops exactly one step.
BackNeverFailsOnEmptyHistory ==
    [][BackSettles =>
          LET b == procs[1].backend
              before == HistoryOf(b, tabs)
              after == HistoryOf(b, tabs')
          IN  IF Len(before) <= 1
              THEN /\ reply'.outcome = "ok"
                   /\ reply'.info.present
                   /\ Len(after) <= 1
                   /\ before # << >> => after = before
              ELSE reply'.outcome = "ok" => after = Front(before)
      ]_vars


\* the handler of a screenshot command settles in this step on a backend without an
\* active page: no navigate has succeeded on the instance since it was created
ScreenshotWithoutPageSettles ==
    /\ procs[1].kind = "screenshot" /\ procs'[1] = Idle
    /\ ~tabs[procs[1].backend].open
    /\ ~tabs[procs[1].backend].info.present

\* C20: screenshot() on a backend that has no active page fails instead of returning
\* an image; a screenshot command of a chat without a session does not create a page
\* and capture it.
ScreenshotNeedsActivePage ==
    [][ScreenshotWithoutPageSettles =>
          /\ reply'.outcome # "ok"
          /\ ~tabs'[procs[1].backend].open
      ]_vars


PageInfoBounded ==
    reply.op \in CommandOps /\ reply.info.present =>
        /\ reply.info.text <= MAX_TEXT_LENGTH
        /\ reply.info.links <= LinksKept
        /\ reply.info.inputs <= InputsKept

\* C23: an action of one chat (navigate, click, type, back) never changes the page on
\* which the other chat's next call operates, whichever backend family is selected.
ActorsIsolated ==
    [][\A a \in SharingChats :
          (reply' # reply /\ reply'.actor # a) => ShownTo(a, tabs') = ShownTo(a, tabs)
      ]_vars

\* C24: every navigate, click, type and back of a backend eventually completes, with a
\* result or with a failure, even when the engine or the service never answers.
EveryCallCompletes == <>(reply.outcome # "pending")

\* the text begins with http:// or https://
HasWebPrefix(text) ==
    Len(text) >= 2 /\ SubSeq(text, 1, 2) \in {<<W("http"), Sep>>, <<W("https"), Sep>>}

\* C25: a navigate argument that does not start with http:// or https:// gets https://
\* in front before the guard checks it; one that starts with either reaches the guard
\* unchanged.
SchemeDefaulted ==
    [][(gStage = "args" /\ gStage' = "url") =>
          IF HasWebPrefix(gText) THEN gText' = gText
          ELSE /\ Len(gText') = Len(gText) + 2
               /\ SubSeq(gText', 1, 2) = <<W("https"), Sep>>
               /\ SubSeq(gText', 3, Len(gText')) = gText
      ]_vars

PrefixedOverOtherScheme ==
    /\ gStage = "url"
    /\ Len(gText) >= 4
    /\ SubSeq(gText, 1, 4) = <<W("https"), Sep, W("ftp"), Sep>>

\* C26: every armed idle timer is the timer of the entry currently registered for its
\* chat, so no chat has two armed timers and no timer fires for an entry other than
\* its own.  (Stated for the states in which every backend not yet cleaned up is held
\* by an entry of the pool, so that a failure is the timers' own.)
TimersBelongToEntries ==
    (\A b \in DOMAIN backends : backends[b].cleanups = 0 => HeldByPool(b)) =>
        \A t \in armed :
            /\ MapHas(sessions, t.chatId)
            /\ MapGet(sessions, t.chatId).timer = t.id

\* C27: an actor that has a pageCache entry also has a live session entry, also when
\* its session is evicted while one of its backend operations is in flight and
\* completes later.
CacheWithinSession ==
    \A a \in Actors : pageCache[a].present => MapHas(sessions, a)

\* C28: getSession for an actor that has a live entry returns that entry's backend,
\* sets its lastUsed to the current time, cancels its idle timer and arms a new one of
\* SESSION_IDLE_MS, and does nothing else: no backend is constructed, no entry is
\* evicted, no probe is made, the pool size and every other entry are unchanged.
RefreshFrame ==
    [][\A p \in Slots : GetSessionExisting(p) =>
          LET a == procs[p].chatId
              old == MapGet(sessions, a)
              new == MapGet(sessions', a)
          IN  /\ procs'[p].backend = old.backend
              /\ new = [old EXCEPT !.lastUsed = now, !.timer = new.timer]
              /\ \E t \in armed' :
                    /\ t = [id |-> new.timer, chatId |-> a, due |-> now + SESSION_IDLE_MS]
                    /\ armed' = {u \in armed : u.id # old.timer} \cup {t}
                    /\ t \notin {u \in armed : u.id # old.timer}
              /\ Len(sessions') = Len(sessions)
              /\ \A i \in DOMAIN sessions : sessions[i].chatId # a => sessions'[i] = sessions[i]
              /\ backends' = backends
              /\ promises' = promises /\ detectionPromise' = detectionPromise
              /\ pageCache' = pageCache
      ]_vars

RefreshedLater ==
    \E p \in Slots :
        /\ InFlight = {p} /\ procs[p].pc = "opWait"
        /\ MapHas(sessions, procs[p].chatId)
        /\ LET entry == MapGet(sessions, procs[p].chatId)
           IN  /\ entry.backend = procs[p].backend
               /\ backends[entry.backend].top \notin {EmptyText, AboutBlank}
               /\ entry.lastUsed = SESSION_IDLE_MS
               /\ \E t \in armed : t.id = entry.timer /\ t.due = 2 * SESSION_IDLE_MS

\* call p is suspended inside evictSession, between its lookup of the entry and the
\* removal (index.ts:61-65), or inside getSession, between its check of the pool and
\* the registration of the new entry (index.ts:70-91)
SuspendedInside(p) == procs[p].pc \in {"evicting", "detect"}

\* C29: every mutation of the session pool and the page cache is one atomic step: no
\* call is suspended between reading the pool state it decides on and writing its
\* mutation, so no other step changes the maps in between.
MutationsAtomic ==
    [][\A p \in Slots :
          (SuspendedInside(p) /\ procs'[p] = procs[p]) =>
              sessions' = sessions /\ pageCache' = pageCache
      ]_vars

\* the evictSession call p completes in this step, having overlapped another eviction
\* of the same entry: cleanup() was invoked twice on the backend it cleaned up, and
\* not by a teardown
OverlappedEvictionEnds(p) ==
    /\ procs[p].pc = "evicting" /\ procs'[p].pc # "evicting"
    /\ NeverTornDown /\ \A q \in Slots : procs[q].kind # "teardown"
    /\ \A b \in procs[p].cleaning : backends[b].cleanups >= 2

\* C30: two evictions of one actor that overlap remove only the entry that was live
\* when they started: neither of them removes, without cleanup and with its timer left
\* armed, a newer entry that getSession registered for the actor in the meantime.
OverlappingEvictionsSafe ==
    [][\A p \in Slots :
          (OverlappedEvictionEnds(p) /\ MapHas(sessions, procs[p].victim)) =>
              MapGet(sessions, procs[p].victim).backend \in procs[p].cleaning
      ]_vars

\* the instance holds a launched browser that no cleanup has closed since
HoldsBrowser(b) == backends[b].launched

\* C31: in every reachable state at most MAX_SESSIONS backend instances hold a
\* launched browser, and every backend that no session entry references has had
\* cleanup invoked and holds no browser.  (Stated for states in which the plugin was
\* never torn down, no actor had two backends constructed and no idle period has
\* elapsed, so that a failure is not the one of overlapping creations or of teardown
\* and does not need a call that outlasts the idle time.)
ScarceResourceBounded ==
    (NeverTornDown /\ now < SESSION_IDLE_MS /\ \A b, c \in DOMAIN backends : backends[b].owner = backends[c].owner => b = c) =>
        /\ Cardinality({b \in DOMAIN backends : HoldsBrowser(b)}) <= MAX_SESSIONS
        /\ \A b \in DOMAIN backends :
              ~HeldByPool(b) => Released(b) /\ ~HoldsBrowser(b)

\* getSession returns a session to the call in slot p in this step and the handler
\* issues its backend operation (the call moves on to ensurePage or to the operation)
HandedOut(p) ==
    /\ procs[p].pc \in {"gs", "detect", "evicting"}
    /\ procs'[p].pc \in {"launch", "opWait"}

\* C32: getSession never hands out a backend whose cleanup has been started: the
\* instance a call receives, and on which its operation is issued, has not had
\* cleanup() invoked.  (Stated for runs without teardown, so that the cleanup is the
\* one of evictSession.)
NoCleanedBackendHandedOut ==
    [][\A p \in Slots :
          (NeverTornDown /\ (\A q \in Slots : procs[q].kind # "teardown") /\ HandedOut(p)) =>
              backends'[procs'[p].backend].cleanups = 0
      ]_vars

\* C33: in the Playwright backend click(i) issued right after an extraction, with
\* i < links.length, activates exactly the anchor that produced links[i], for every
\* document of anchors with empty, blank or non-empty label and http or other href.
LinkIndexStable ==
    (gStage = "clicked" /\ reply.idx < Len(reply.links)) =>
        reply.clicked = reply.links[reply.idx + 1].anchor

\* a listed link was clicked whose index differs from its element's position because
\* an anchor with a blank label stands before it
ClickedPastBlankLabel ==
    /\ gStage = "clicked"
    /\ reply.idx < Len(reply.links)
    /\ reply.clicked > reply.idx + 1
    /\ \E k \in 1..(reply.clicked - 1) : tabs[1][k].label = <<" ">>

\* the call in flight is a navigate, click or type of the Pinchtab backend and settles
\* in this step with the I/O outcome env
PinchtabSettles(env) ==
    /\ procs[1].pc = "opWait"
    /\ backends[procs[1].backend].family = "pinchtab"
    /\ procs[1].kind \in {"navigate", "click", "type"}
    /\ OpsSettled(env)

\* C34: in the Pinchtab backend navigate, click and type succeed when the text call
\* succeeds and the snapshot call fails, returning the fetched text with empty links
\* and inputs; they fail only when the action call or the text call fails.
SnapshotFailureTolerated ==
    [][\A env \in Envs : PinchtabSettles(env) =>
          /\ env.fail = "snapshot" =>
                /\ reply'.outcome = "ok"
                /\ reply'.info.present
                /\ reply'.info.links = 0 /\ reply'.info.inputs = 0
                /\ reply'.info.text = Min(env.doc.chars, MAX_TEXT_LENGTH)
                /\ pageCache'[OpsChat].present
          /\ reply'.outcome # "ok" => env.fail \in {"operation", "extract"}
      ]_vars

\* a click of the Pinchtab backend succeeded with text and without any link, which
\* no document does unless its snapshot failed
ClickedWithoutSnapshot ==
    /\ gStage = "off"
    /\ reply.op = "click" /\ reply.outcome = "ok"
    /\ MapHas(sessions, OpsChat)
    /\ backends[MapGet(sessions, OpsChat).backend].family = "pinchtab"
    /\ reply.info.present /\ reply.info.links = 0 /\ reply.info.text > 0

\* C35: browse:links and browse:page are served from the page cache only: they create
\* no session, call no backend, do not refresh lastUsed or re-arm the idle timer and
\* leave the session pool and the page cache unchanged; with no cache entry they
\* render nothing.
ReadSideFrame ==
    [][\A request \in ReadRequests : ReadSide(request) =>
          /\ UNCHANGED <<sessions, pageCache, detectionPromise, promises, backends, armed,
                         procs, tabs>>
          /\ ~pageCache[OpsChat].present => reply'.outcome = "nothing"
          /\ reply'.outcome = "rendered" => reply'.shown.url = pageCache[OpsChat].url
      ]_vars

\* the links of a cached page have been shown to a chat that has a session, and more
\* links were cached than are displayed
LinksShownFromCache ==
    /\ reply.op = "links" /\ reply.outcome = "rendered"
    /\ MapHas(sessions, OpsChat)
    /\ pageCache[OpsChat].links > MAX_LINKS_DISPLAY
    /\ reply.shown.links = MAX_LINKS_DISPLAY

\* the PageInfo the backend of the chat's session returned last, as a cache entry
LastReturned(ss, ts) ==
    IF ~MapHas(ss, OpsChat) THEN NoPage
    ELSE IF ts[MapGet(ss, OpsChat).backend].info.present
    THEN ts[MapGet(ss, OpsChat).backend].info
    ELSE NoPage

\* C36: with the actions of a chat issued one after the other, a successful
\* navigate, click, type, back or refresh stores the PageInfo it returned, a
\* screenshot or a failed action leaves the cache entry unchanged, and between the
\* actions the entry is the PageInfo the chat's session returned last since it was
\* created.
CacheHoldsLastPage ==
    [][/\ \A env \in Envs : OpsSettled(env) =>
             IF reply'.outcome = "ok" /\ procs[1].kind # "screenshot"
             THEN pageCache'[OpsChat] = reply'.info
             ELSE pageCache' = pageCache
       /\ procs'[1] = Idle => pageCache'[OpsChat] = LastReturned(sessions', tabs')
      ]_vars

\* a back succeeded on a session that had a page cached, and the cache now holds
\* the page back returned, which is another one
CacheReplacedByBack ==
    /\ procs[1] = Idle
    /\ reply.op = "back" /\ reply.outcome = "ok"
    /\ reply.cacheBefore.present
    /\ reply.cacheBefore.url # reply.info.url
    /\ pageCache[OpsChat] = reply.info

\* only chat a has used its backend so far
ActsAlone(a) == \A c \in SharingChats \ {a} : tabs[c] = FreshTab

\* C37: in the Pinchtab backend, after any sequence of navigate, click, type and back
\* on one backend that has navigated, the url of the PageInfo returned last, which is
\* the top of urlHistory and what a refresh reloads, is the URL of the page the
\* service is showing.  (Stated for states in which the service is not back on the
\* blank page it started with.)
UrlHistoryTracksRemotePage ==
    \A a \in SharingChats :
        (/\ backends[a].family = "pinchtab"
         /\ ActsAlone(a)
         /\ reply.op # "none"
         /\ tabs[a].urlHistory # << >>
         /\ Last(tabs[ServiceTab].hist).url # AboutBlank) =>
            /\ tabs[a].info.url = Last(tabs[a].urlHistory)
            /\ pageCache[a].url = Last(tabs[ServiceTab].hist).url

\* C38: in the reminder plugin every armed quick-timer timeout and tick interval of
\* a chat is the pair stored in the chat's activeTimers entry, also when two
\* remind:quick presses of one chat overlap at the handler's awaits, so that a stop
\* request stops every pending quick timer.
QuickTimersRegistered ==
    \A t \in armed :
        /\ MapHas(sessions, t.chatId)
        /\ MapGet(sessions, t.chatId).timer = t.id

====
